---- MODULE Spec2Model ----
(***************************************************************************)
(* Model of the asciicker-rs Y6 packet codec (src/src/y6/packets.rs,       *)
(* src/src/y6/utils.rs) and of Bot::new (src/src/y6/bot.rs).               *)
(*                                                                         *)
(* Bytes are naturals 0..255, a Vec<u8> / [u8; N] / CString payload is a   *)
(* sequence of bytes (a CString is modelled by as_bytes(), i.e. without    *)
(* the trailing nul from_vec_unchecked appends).  An f32 is modelled by    *)
(* its 32-bit pattern, a u16 by a natural below 65536.  Every fallible or  *)
(* panicking operation returns a result record [tag, val] with tag "Ok",   *)
(* "Err" or "Panic".  NaN bit patterns are not among the f32 inputs, so    *)
(* equality of bit patterns is the derived PartialEq.                      *)
(***************************************************************************)
EXTENDS Integers, Sequences, FiniteSets, TLC

VARIABLES
    bigEndian,        \* target platform: TRUE when native order is big-endian
    stage,            \* position of the driver: "idle", "encoded", "decoded", ...
    kind,             \* packet kind the driver is working on
    src,              \* the input handed to the first conversion
    mid,              \* result of the first conversion
    fin               \* result of the second conversion

codecVars == <<bigEndian, stage, kind, src, mid, fin>>

VARIABLES
    self_,            \* the Bot handed to run: nickname, replace_invalid_utf8
    run,              \* position of Bot::run: "new", "awaiting", "spawned", ...
    sent,             \* frames written to the transport so far
    first,            \* the first inbound message, taken by Bot::run
    bot,              \* Arc<Mutex<Player>>: the bot's own Player
    world,            \* Arc<Mutex<World>>
    receiver,         \* position of the receiver task
    receiver_finished,\* Arc<Mutex<bool>> of the receiver task
    sender,           \* position of the sender task
    sender_finished,  \* Arc<Mutex<bool>> of the sender task
    cur,              \* the broadcast patch_world is working on
    received,         \* number of messages taken from the transport
    hist              \* per frame given to patch_world: what was observed

botVars ==
    <<self_, run, sent, first, bot, world, receiver, receiver_finished, sender,
      sender_finished, cur, received, hist>>

VARIABLES
    bot_lock,         \* who holds the Mutex of the bot's Player
    world_lock,       \* who holds the Mutex of the World
    queue,            \* the unbounded channel of Strings
    enqueued,         \* number of Strings sent into the channel so far
    outgoing,         \* the String the sender task is writing
    talked,           \* the Strings written as talk requests, in order
    write_failed,     \* a write or a CString::new of the sender task failed
    caller,           \* position of the caller of Bot::run
    arrived           \* the Binary frames the receiver task was given

loopVars ==
    <<bot_lock, world_lock, queue, enqueued, outgoing, talked, write_failed,
      caller, arrived>>

vars == <<codecVars, botVars, loopVars>>

----------------------------------------------------------------------------
(* Bounds of the model *)

\* longest CString name handed to the encoders (fields are 31 and 32 wide)
MaxNameLen == 33

\* longest talk text handed to the encoders
MaxTextLen == 3

\* longest String made a TalkRequest: CString::new and the channel set no
\* limit, and 256 is the first length the u8 len field cannot hold
MaxTalkLen == 256

\* longest byte buffer handed to the decoders (the largest fixed frame has
\* 56 bytes, the largest documented one 58)
MaxBufLen == 58

----------------------------------------------------------------------------
(* Results *)

Ok(v) == [tag |-> "Ok", val |-> v]

Err(e) == [tag |-> "Err", val |-> e]

Panic == [tag |-> "Panic", val |-> <<>>]

NoVal == [tag |-> "NoVal", val |-> <<>>]

Some(n) == [tag |-> "Some", val |-> n]

None == [tag |-> "None", val |-> 0]

SizeMismatch(a, b) == [type |-> "SizeMismatch", first |-> a, second |-> b]

NoNullByte(bytes) == [type |-> "NoNullByte", bytes |-> bytes]

----------------------------------------------------------------------------
(* Slices and native-endian integers *)

\* value[a..b] of Rust (0-based, b exclusive); the caller checks a <= b <= len
Slice(value, a, b) == SubSeq(value, a + 1, b)

\* value[i] of Rust (0-based); the caller checks i < len
At(value, i) == value[i + 1]

Repeat(byte, n) == [i \in 1..n |-> byte]

u16_to_le_bytes(x) == <<x % 256, x \div 256>>

u16_from_le_bytes(b) == b[1] + 256 * b[2]

u16_to_ne_bytes(x) ==
    IF bigEndian THEN <<x \div 256, x % 256>> ELSE u16_to_le_bytes(x)

u16_from_ne_bytes(b) ==
    IF bigEndian THEN 256 * b[1] + b[2] ELSE u16_from_le_bytes(b)

\* an f32 is its bit pattern, written as four base-256 digits, the most
\* significant first
Reverse4(b) == <<b[4], b[3], b[2], b[1]>>

f32_to_ne_bytes(x) == IF bigEndian THEN x ELSE Reverse4(x)

f32_from_ne_bytes(b) == IF bigEndian THEN b ELSE Reverse4(b)

RECURSIVE first_nul_loop(_, _)
first_nul_loop(bytes, size) ==
    IF size >= Len(bytes) THEN None
    ELSE IF bytes[size + 1] = 0 THEN Some(size)
    ELSE first_nul_loop(bytes, size + 1)

first_nul(bytes) == first_nul_loop(bytes, 0)

unwrap_or(opt, default) == IF opt.tag = "Some" THEN opt.val ELSE default

----------------------------------------------------------------------------
(* Sizes *)

SIZE_U8 == 1

SIZE_U16 == 2

SIZE_F32 == 4

\* PLAYER_POSE_SIZE had the sprite been counted twice: the documented 23 bytes
PLAYER_POSE_SIZE_sprite_twice == SIZE_U8 * 3 + SIZE_F32 * 4 + SIZE_U16 * 2

PLAYER_POSE_SIZE == SIZE_U8 * 3 + SIZE_F32 * 4 + SIZE_U16

JOIN_REQ_SIZE == SIZE_U8 + SIZE_U8 * 31

JOIN_RSP_SIZE == SIZE_U8 * 2 + SIZE_U16

JOIN_BRC_SIZE == SIZE_U8 * 4 + SIZE_F32 * 4 + SIZE_U16 * 2 + SIZE_U8 * 32

EXIT_BRC_SIZE == SIZE_U8 * 2 + SIZE_U16

POSE_REQ_SIZE == SIZE_U8 * 4 + SIZE_F32 * 4 + SIZE_U16

POSE_BRC_SIZE == SIZE_U8 * 4 + SIZE_F32 * 4 + SIZE_U16 * 2

LAG_REQ_SIZE == SIZE_U8 * 4

LAG_RSP_SIZE == SIZE_U8 * 4

----------------------------------------------------------------------------
(* PlayerPose *)

PlayerPose_into_Bytes(self) ==
    <<self.animation, self.frame, self.action_or_mount>>
        \o f32_to_ne_bytes(self.position[1])
        \o f32_to_ne_bytes(self.position[2])
        \o f32_to_ne_bytes(self.position[3])
        \o f32_to_ne_bytes(self.direction)
        \o u16_to_ne_bytes(self.sprite)

PlayerPose_try_from(value) ==
    IF Len(value) # PLAYER_POSE_SIZE
    THEN Err(SizeMismatch(Len(value), PLAYER_POSE_SIZE))
    ELSE Ok([animation |-> At(value, 0),
             frame |-> At(value, 1),
             action_or_mount |-> At(value, 2),
             position |-> <<f32_from_ne_bytes(Slice(value, 3, 7)),
                            f32_from_ne_bytes(Slice(value, 7, 11)),
                            f32_from_ne_bytes(Slice(value, 11, 15))>>,
             direction |-> f32_from_ne_bytes(Slice(value, 15, 19)),
             sprite |-> u16_from_ne_bytes(Slice(value, 19, 21))])

----------------------------------------------------------------------------
(* Bytes to raw packet structs *)

RawJoinRequest_try_from(value) ==
    IF Len(value) # JOIN_REQ_SIZE
    THEN Err(SizeMismatch(JOIN_REQ_SIZE, Len(value)))
    ELSE Ok([token |-> At(value, 0),
             name |-> Slice(value, 1, 1 + 31)])

RawJoinResponse_try_from(value) ==
    IF Len(value) # JOIN_RSP_SIZE
    THEN Err(SizeMismatch(JOIN_RSP_SIZE, Len(value)))
    ELSE Ok([token |-> At(value, 0),
             max_clients |-> At(value, 1),
             id |-> u16_from_ne_bytes(<<At(value, 2), At(value, 3)>>)])

RawJoinBroadcast_try_from(value) ==
    IF Len(value) # JOIN_BRC_SIZE
    THEN Err(SizeMismatch(JOIN_BRC_SIZE, Len(value)))
    ELSE Ok([token |-> At(value, 0),
             player_pose |->
                 [animation |-> At(value, 1),
                  frame |-> At(value, 2),
                  action_or_mount |-> At(value, 3),
                  position |-> <<f32_from_ne_bytes(Slice(value, 4, 8)),
                                 f32_from_ne_bytes(Slice(value, 8, 12)),
                                 f32_from_ne_bytes(Slice(value, 12, 16))>>,
                  direction |-> f32_from_ne_bytes(Slice(value, 16, 20)),
                  sprite |-> u16_from_ne_bytes(<<At(value, 22), At(value, 23)>>)],
             id |-> u16_from_ne_bytes(<<At(value, 20), At(value, 21)>>),
             name |-> Slice(value, 24, 24 + 32)])

RawExitBroadcast_try_from(value) ==
    IF Len(value) # EXIT_BRC_SIZE
    THEN Err(SizeMismatch(EXIT_BRC_SIZE, Len(value)))
    ELSE Ok([token |-> At(value, 0),
             _padding |-> At(value, 1),
             id |-> u16_from_le_bytes(<<At(value, 2), At(value, 3)>>)])

\* value[1..=21] is in bounds whenever the length check passed; `?` forwards
\* the error of PlayerPose::try_from
RawPoseRequest_try_from(value) ==
    IF Len(value) # POSE_REQ_SIZE
    THEN Err(SizeMismatch(POSE_REQ_SIZE, Len(value)))
    ELSE LET pose == PlayerPose_try_from(Slice(value, 1, 22))
         IN  IF pose.tag = "Err" THEN pose
             ELSE Ok([token |-> At(value, 0),
                      player_pose |-> pose.val])

RawPoseBroadcast_try_from(value) ==
    IF Len(value) # POSE_BRC_SIZE
    THEN Err(SizeMismatch(POSE_BRC_SIZE, Len(value)))
    ELSE LET pose == PlayerPose_try_from(Slice(value, 1, 22))
         IN  IF pose.tag = "Err" THEN pose
             ELSE Ok([token |-> At(value, 0),
                      player_pose |-> pose.val,
                      id |-> u16_from_ne_bytes(<<At(value, 22), At(value, 23)>>)])

\* &value[2..] panics when the buffer has fewer than 2 bytes; first_nul counts
\* from offset 2 but its result is used as the absolute end of value[2..len],
\* which panics when len < 2
RawTalkRequest_try_from(value) ==
    IF Len(value) < 2 THEN Panic
    ELSE LET nul == first_nul(Slice(value, 2, Len(value)))
         IN  IF nul.tag = "None"
             THEN Err(NoNullByte(Slice(value, 2, Len(value))))
             ELSE IF nul.val < 2 THEN Panic
             ELSE Ok([token |-> At(value, 0),
                      len |-> At(value, 1),
                      str |-> Slice(value, 2, nul.val)])

\* value[0] .. value[3] panic on a buffer shorter than 4 bytes; the whole
\* tail value[4..] becomes the CString, no terminator is looked for, so the
\* CString holds the terminator and padding bytes of the frame as interior
\* bytes (as_bytes() and the derived PartialEq see all of them)
RawTalkBroadcast_try_from(value) ==
    IF Len(value) < 4 THEN Panic
    ELSE Ok([token |-> At(value, 0),
             len |-> At(value, 1),
             id |-> u16_from_ne_bytes(<<At(value, 2), At(value, 3)>>),
             str |-> Slice(value, 4, Len(value))])

RawLagRequest_try_from(value) ==
    IF Len(value) # LAG_REQ_SIZE
    THEN Err(SizeMismatch(LAG_REQ_SIZE, Len(value)))
    ELSE Ok([token |-> At(value, 0),
             stamp |-> <<At(value, 1), At(value, 2), At(value, 3)>>])

RawLagResponse_try_from(value) ==
    IF Len(value) # LAG_RSP_SIZE
    THEN Err(SizeMismatch(LAG_RSP_SIZE, Len(value)))
    ELSE Ok([token |-> At(value, 0),
             stamp |-> <<At(value, 1), At(value, 2), At(value, 3)>>])

----------------------------------------------------------------------------
(* Raw to clean packet structs *)

\* cstr has 31 bytes: cstr[0..32] panics when no nul byte is found
JoinRequest_from(value) ==
    LET cstr == value.name
        end == unwrap_or(first_nul(cstr), 32)
    IN  IF end > Len(cstr) THEN Panic
        ELSE Ok([name |-> Slice(cstr, 0, end)])

JoinResponse_from(value) ==
    Ok([max_clients |-> value.max_clients, id |-> value.id])

JoinBroadcast_from(value) ==
    LET end == unwrap_or(first_nul(value.name), 32)
    IN  IF end > Len(value.name) THEN Panic
        ELSE Ok([player_pose |-> value.player_pose,
                 id |-> value.id,
                 name |-> Slice(value.name, 0, end)])

ExitBroadcast_from(value) == Ok([id |-> value.id])

PoseRequest_from(value) == Ok([player_pose |-> value.player_pose])

PoseBroadcast_from(value) ==
    Ok([player_pose |-> value.player_pose, id |-> value.id])

TalkRequest_from(value) == Ok([str |-> value.str])

TalkBroadcast_from(value) == Ok([id |-> value.id, str |-> value.str])

LagRequest_from(value) == Ok([stamp |-> value.stamp])

LagResponse_from(value) == Ok([stamp |-> value.stamp])

----------------------------------------------------------------------------
(* Clean to raw packet structs *)

\* name[i] = elem panics (index out of bounds) once i reaches the field width
JoinRequest_into_Raw(self) ==
    IF Len(self.name) > 31 THEN Panic
    ELSE Ok([token |-> 74,
             name |-> self.name \o Repeat(0, 31 - Len(self.name))])

JoinResponse_into_Raw(self) ==
    Ok([token |-> 106, max_clients |-> self.max_clients, id |-> self.id])

\* Into<RawJoinBroadcast> had the name buffer started out as [b' '; 32]
JoinBroadcast_into_Raw_space_filled(self) ==
    IF Len(self.name) > 32 THEN Panic
    ELSE Ok([token |-> 106,
             player_pose |-> self.player_pose,
             id |-> self.id,
             name |-> self.name \o Repeat(32, 32 - Len(self.name))])

JoinBroadcast_into_Raw(self) ==
    IF Len(self.name) > 32 THEN Panic
    ELSE Ok([token |-> 106,
             player_pose |-> self.player_pose,
             id |-> self.id,
             name |-> self.name \o Repeat(0, 32 - Len(self.name))])

ExitBroadcast_into_Raw(self) ==
    Ok([token |-> 101, _padding |-> 0, id |-> self.id])

PoseRequest_into_Raw(self) ==
    Ok([token |-> 80, player_pose |-> self.player_pose])

PoseBroadcast_into_Raw(self) ==
    Ok([token |-> 112, player_pose |-> self.player_pose, id |-> self.id])

\* bytes.len() as u8 keeps the low 8 bits
TalkRequest_into_Raw(self) ==
    Ok([token |-> 84, len |-> Len(self.str) % 256, str |-> self.str])

TalkBroadcast_into_Raw(self) ==
    Ok([token |-> 116, len |-> Len(self.str) % 256, id |-> self.id,
        str |-> self.str])

LagRequest_into_Raw(self) == Ok([token |-> 76, stamp |-> self.stamp])

LagResponse_into_Raw(self) == Ok([token |-> 108, stamp |-> self.stamp])

----------------------------------------------------------------------------
(* Raw packet structs to bytes *)

RawJoinRequest_into_Bytes(self) == <<self.token>> \o self.name

RawJoinResponse_into_Bytes(self) ==
    <<self.token, self.max_clients>> \o u16_to_ne_bytes(self.id)

RawJoinBroadcast_into_Bytes(self) ==
    <<self.token,
      self.player_pose.animation,
      self.player_pose.frame,
      self.player_pose.action_or_mount>>
        \o f32_to_ne_bytes(self.player_pose.position[1])
        \o f32_to_ne_bytes(self.player_pose.position[2])
        \o f32_to_ne_bytes(self.player_pose.position[3])
        \o f32_to_ne_bytes(self.player_pose.direction)
        \o u16_to_ne_bytes(self.id)
        \o u16_to_ne_bytes(self.player_pose.sprite)
        \o self.name

\* the padding byte written is the literal 0, not self._padding
RawExitBroadcast_into_Bytes(self) ==
    <<self.token, 0>> \o u16_to_ne_bytes(self.id)

RawPoseRequest_into_Bytes(self) ==
    <<self.token,
      self.player_pose.animation,
      self.player_pose.frame,
      self.player_pose.action_or_mount>>
        \o f32_to_ne_bytes(self.player_pose.position[1])
        \o f32_to_ne_bytes(self.player_pose.position[2])
        \o f32_to_ne_bytes(self.player_pose.position[3])
        \o f32_to_ne_bytes(self.player_pose.direction)
        \o u16_to_ne_bytes(self.player_pose.sprite)

RawPoseBroadcast_into_Bytes(self) ==
    <<self.token,
      self.player_pose.animation,
      self.player_pose.frame,
      self.player_pose.action_or_mount>>
        \o f32_to_ne_bytes(self.player_pose.position[1])
        \o f32_to_ne_bytes(self.player_pose.position[2])
        \o f32_to_ne_bytes(self.player_pose.position[3])
        \o f32_to_ne_bytes(self.player_pose.direction)
        \o u16_to_ne_bytes(self.player_pose.sprite)
        \o u16_to_ne_bytes(self.id)

\* into_bytes_with_nul appends the terminator, then one padding nul is pushed
RawTalkRequest_into_Bytes(self) ==
    <<self.token, self.len>> \o (self.str \o <<0>> \o <<0>>)

RawTalkBroadcast_into_Bytes(self) ==
    <<self.token, self.len>> \o u16_to_ne_bytes(self.id)
        \o (self.str \o <<0>> \o <<0>>)

RawLagRequest_into_Bytes(self) == <<self.token>> \o self.stamp

RawLagResponse_into_Bytes(self) == <<self.token>> \o self.stamp

----------------------------------------------------------------------------
(* Dispatch on the packet kind: the per-type trait impls and the two macros *)

PacketKinds ==
    {"JoinRequest", "JoinResponse", "JoinBroadcast", "ExitBroadcast",
     "PoseRequest", "PoseBroadcast", "TalkRequest", "TalkBroadcast",
     "LagRequest", "LagResponse"}

FixedKinds == PacketKinds \ {"TalkRequest", "TalkBroadcast"}

ExpectedSize(k) ==
    CASE k = "PlayerPose" -> PLAYER_POSE_SIZE
      [] k = "JoinRequest" -> JOIN_REQ_SIZE
      [] k = "JoinResponse" -> JOIN_RSP_SIZE
      [] k = "JoinBroadcast" -> JOIN_BRC_SIZE
      [] k = "ExitBroadcast" -> EXIT_BRC_SIZE
      [] k = "PoseRequest" -> POSE_REQ_SIZE
      [] k = "PoseBroadcast" -> POSE_BRC_SIZE
      [] k = "LagRequest" -> LAG_REQ_SIZE
      [] k = "LagResponse" -> LAG_RSP_SIZE

Raw_try_from(k, value) ==
    CASE k = "JoinRequest" -> RawJoinRequest_try_from(value)
      [] k = "JoinResponse" -> RawJoinResponse_try_from(value)
      [] k = "JoinBroadcast" -> RawJoinBroadcast_try_from(value)
      [] k = "ExitBroadcast" -> RawExitBroadcast_try_from(value)
      [] k = "PoseRequest" -> RawPoseRequest_try_from(value)
      [] k = "PoseBroadcast" -> RawPoseBroadcast_try_from(value)
      [] k = "TalkRequest" -> RawTalkRequest_try_from(value)
      [] k = "TalkBroadcast" -> RawTalkBroadcast_try_from(value)
      [] k = "LagRequest" -> RawLagRequest_try_from(value)
      [] k = "LagResponse" -> RawLagResponse_try_from(value)

Clean_from(k, raw) ==
    CASE k = "JoinRequest" -> JoinRequest_from(raw)
      [] k = "JoinResponse" -> JoinResponse_from(raw)
      [] k = "JoinBroadcast" -> JoinBroadcast_from(raw)
      [] k = "ExitBroadcast" -> ExitBroadcast_from(raw)
      [] k = "PoseRequest" -> PoseRequest_from(raw)
      [] k = "PoseBroadcast" -> PoseBroadcast_from(raw)
      [] k = "TalkRequest" -> TalkRequest_from(raw)
      [] k = "TalkBroadcast" -> TalkBroadcast_from(raw)
      [] k = "LagRequest" -> LagRequest_from(raw)
      [] k = "LagResponse" -> LagResponse_from(raw)

Clean_into_Raw(k, self) ==
    CASE k = "JoinRequest" -> JoinRequest_into_Raw(self)
      [] k = "JoinResponse" -> JoinResponse_into_Raw(self)
      [] k = "JoinBroadcast" -> JoinBroadcast_into_Raw(self)
      [] k = "ExitBroadcast" -> ExitBroadcast_into_Raw(self)
      [] k = "PoseRequest" -> PoseRequest_into_Raw(self)
      [] k = "PoseBroadcast" -> PoseBroadcast_into_Raw(self)
      [] k = "TalkRequest" -> TalkRequest_into_Raw(self)
      [] k = "TalkBroadcast" -> TalkBroadcast_into_Raw(self)
      [] k = "LagRequest" -> LagRequest_into_Raw(self)
      [] k = "LagResponse" -> LagResponse_into_Raw(self)

Raw_into_Bytes(k, self) ==
    CASE k = "JoinRequest" -> RawJoinRequest_into_Bytes(self)
      [] k = "JoinResponse" -> RawJoinResponse_into_Bytes(self)
      [] k = "JoinBroadcast" -> RawJoinBroadcast_into_Bytes(self)
      [] k = "ExitBroadcast" -> RawExitBroadcast_into_Bytes(self)
      [] k = "PoseRequest" -> RawPoseRequest_into_Bytes(self)
      [] k = "PoseBroadcast" -> RawPoseBroadcast_into_Bytes(self)
      [] k = "TalkRequest" -> RawTalkRequest_into_Bytes(self)
      [] k = "TalkBroadcast" -> RawTalkBroadcast_into_Bytes(self)
      [] k = "LagRequest" -> RawLagRequest_into_Bytes(self)
      [] k = "LagResponse" -> RawLagResponse_into_Bytes(self)

\* impl_from_bytes_for_clean: Raw::try_from, then Clean::from
Clean_try_from(k, value) ==
    LET raw == Raw_try_from(k, value)
    IN  IF raw.tag = "Ok" THEN Clean_from(k, raw.val) ELSE raw

\* impl_into_bytes_for_clean: Into<Raw>, then Into<Bytes>
Clean_into_Bytes(k, self) ==
    LET raw == Clean_into_Raw(k, self)
    IN  IF raw.tag = "Ok" THEN Ok(Raw_into_Bytes(k, raw.val)) ELSE raw

----------------------------------------------------------------------------
(* Bot::new *)

\* debug_assert!(nickname.len() <= 31) panics only when debug assertions are
\* compiled in; otherwise the Bot is built with whatever nickname was given
Bot_new(nickname, replace_invalid_utf8, debug_assertions) ==
    IF debug_assertions /\ ~(Len(nickname) <= 31) THEN Panic
    ELSE Ok([nickname |-> nickname,
             replace_invalid_utf8 |-> replace_invalid_utf8])

\* a run whose first frame is a pose request token
Bot_run_join_req_pose(self) == Ok(<<80>>)

\* Bot::run up to the join request: CString::new rejects a nickname holding
\* a nul byte, then the JoinRequest is converted into Bytes
Bot_run_join_req(self) ==
    IF \E i \in 1..Len(self.nickname) : self.nickname[i] = 0
    THEN Err([type |-> "RuntimeError"])
    ELSE Clean_into_Bytes("JoinRequest", [name |-> self.nickname])

----------------------------------------------------------------------------
(* Inputs of the driver *)

\* CString names: no nul byte, every length up to MaxNameLen
Names ==
    {Repeat(97, n) : n \in 0..MaxNameLen}
        \cup {[i \in 1..n |-> IF i = n THEN 255 ELSE 97] : n \in 1..MaxNameLen}

\* CString talk texts: no nul byte, every length up to MaxTextLen
Texts == UNION {[1..n -> {104, 105}] : n \in 0..MaxTextLen}

\* talk texts at the end of what the frame of 258 bytes and the u8 len can
\* hold, and past it
LongTexts == {Repeat(104, n) : n \in (MaxTalkLen - 2)..MaxTalkLen}

Ids == {0, 5, 258, 65535}

\* Default::default(), and animation 1, frame 2, action 0, position
\* [1.0, 2.0, 3.0], direction 0.5, sprite 7
Poses ==
    {[animation |-> 0, frame |-> 0, action_or_mount |-> 0,
      position |-> <<<<0, 0, 0, 0>>, <<0, 0, 0, 0>>, <<0, 0, 0, 0>>>>,
      direction |-> <<0, 0, 0, 0>>, sprite |-> 0],
     [animation |-> 1, frame |-> 2, action_or_mount |-> 0,
      position |-> <<<<63, 128, 0, 0>>, <<64, 0, 0, 0>>, <<64, 64, 0, 0>>>>,
      direction |-> <<63, 0, 0, 0>>, sprite |-> 7]}

Stamps == {<<0, 0, 0>>, <<1, 2, 3>>}

CleanValues(k) ==
    CASE k = "JoinRequest" -> {[name |-> n] : n \in Names}
      [] k = "JoinResponse" ->
            {[max_clients |-> m, id |-> i] : m \in {0, 10, 255}, i \in Ids}
      [] k = "JoinBroadcast" ->
            {[player_pose |-> p, id |-> i, name |-> n] :
                p \in Poses, i \in Ids, n \in Names}
      [] k = "ExitBroadcast" -> {[id |-> i] : i \in Ids}
      [] k = "PoseRequest" -> {[player_pose |-> p] : p \in Poses}
      [] k = "PoseBroadcast" ->
            {[player_pose |-> p, id |-> i] : p \in Poses, i \in Ids}
      [] k = "TalkRequest" -> {[str |-> t] : t \in Texts}
      [] k = "TalkBroadcast" -> {[id |-> i, str |-> t] : i \in Ids, t \in Texts}
      [] k = "LagRequest" -> {[stamp |-> st] : st \in Stamps}
      [] k = "LagResponse" -> {[stamp |-> st] : st \in Stamps}

\* byte buffers of every length up to MaxBufLen: one fill byte everywhere,
\* except for at most one position that holds another byte
Buffers ==
    UNION {{[i \in 1..n |-> IF i = p THEN v ELSE f] :
                p \in 0..n, f \in {0, 1}, v \in {0, 1, 255}} :
           n \in 0..MaxBufLen}

----------------------------------------------------------------------------
(* The driver: applies the conversions to the inputs *)

\* the codec driver does not run a Bot
BotUnused ==
    /\ self_ = NoVal
    /\ run = "none"
    /\ sent = <<>>
    /\ first = NoVal
    /\ bot = NoVal
    /\ world = NoVal
    /\ receiver = "none"
    /\ receiver_finished = FALSE
    /\ sender = "none"
    /\ sender_finished = FALSE
    /\ cur = NoVal
    /\ received = 0
    /\ hist = <<>>
    /\ bot_lock = "free"
    /\ world_lock = "free"
    /\ queue = <<>>
    /\ enqueued = 0
    /\ outgoing = NoVal
    /\ talked = <<>>
    /\ write_failed = FALSE
    /\ caller = "none"
    /\ arrived = <<>>

CodecInit ==
    /\ bigEndian \in BOOLEAN
    /\ stage = "idle"
    /\ kind = "none"
    /\ src = NoVal
    /\ mid = NoVal
    /\ fin = NoVal
    /\ BotUnused

\* let bytes: Bytes = clean.into();
EncodeClean ==
    /\ stage = "idle"
    /\ \E k \in PacketKinds : \E v \in CleanValues(k) :
          /\ kind' = k
          /\ src' = v
          /\ mid' = Clean_into_Bytes(k, v)
    /\ stage' = "encoded"
    /\ fin' = NoVal
    /\ UNCHANGED <<bigEndian, botVars, loopVars>>

\* Clean::try_from(bytes) on the bytes just produced
DecodeEncoded ==
    /\ stage = "encoded"
    /\ mid.tag = "Ok"
    /\ stage' = "decoded"
    /\ fin' = Clean_try_from(kind, mid.val)
    /\ UNCHANGED <<bigEndian, kind, src, mid, botVars,
                   loopVars>>

\* Raw::try_from(buffer) on an arbitrary buffer
ParseBytes ==
    /\ stage = "idle"
    /\ \E k \in PacketKinds : \E b \in Buffers :
          /\ kind' = k
          /\ src' = b
          /\ mid' = Raw_try_from(k, b)
    /\ stage' = "parsed"
    /\ fin' = NoVal
    /\ UNCHANGED <<bigEndian, botVars, loopVars>>

\* Clean::from(raw) on the raw packet just parsed
CleanParsed ==
    /\ stage = "parsed"
    /\ kind \in PacketKinds
    /\ mid.tag = "Ok"
    /\ stage' = "cleaned"
    /\ fin' = Clean_from(kind, mid.val)
    /\ UNCHANGED <<bigEndian, kind, src, mid, botVars,
                   loopVars>>

\* let bytes: Bytes = raw.into(); on the raw packet just parsed
EncodeParsed ==
    /\ stage = "parsed"
    /\ kind \in PacketKinds
    /\ mid.tag = "Ok"
    /\ stage' = "reencoded"
    /\ fin' = Ok(Raw_into_Bytes(kind, mid.val))
    /\ UNCHANGED <<bigEndian, kind, src, mid, botVars,
                   loopVars>>

\* PlayerPose::try_from(buffer) on an arbitrary buffer
ParsePose ==
    /\ stage = "idle"
    /\ \E b \in Buffers :
          /\ src' = b
          /\ mid' = PlayerPose_try_from(b)
    /\ stage' = "parsed"
    /\ kind' = "PlayerPose"
    /\ fin' = NoVal
    /\ UNCHANGED <<bigEndian, botVars, loopVars>>

\* let bytes: Bytes = pose.into(); on the pose just parsed
EncodePose ==
    /\ stage = "parsed"
    /\ kind = "PlayerPose"
    /\ mid.tag = "Ok"
    /\ stage' = "reencoded"
    /\ fin' = Ok(PlayerPose_into_Bytes(mid.val))
    /\ UNCHANGED <<bigEndian, kind, src, mid, botVars,
                   loopVars>>

\* Bot::new(nickname, address, replace_invalid_utf8) in either build profile
BotNew ==
    /\ stage = "idle"
    /\ \E nickname \in Names : \E replace_invalid_utf8, debug_assertions \in BOOLEAN :
          /\ src' = [nickname |-> nickname,
                     debug_assertions |-> debug_assertions]
          /\ mid' = Bot_new(nickname, replace_invalid_utf8, debug_assertions)
    /\ stage' = "constructed"
    /\ kind' = "Bot"
    /\ fin' = NoVal
    /\ UNCHANGED <<bigEndian, botVars, loopVars>>

\* Bot::run builds the join request of the Bot just constructed
BotJoinRequest ==
    /\ stage = "constructed"
    /\ mid.tag = "Ok"
    /\ stage' = "join_request"
    /\ fin' = Bot_run_join_req(mid.val)
    /\ UNCHANGED <<bigEndian, kind, src, mid, botVars,
                   loopVars>>

\* the sender task makes the frame of a talk request from a String of any
\* length: TalkRequest { str: CString::new(m) }.into()
EncodeTalkRequest ==
    /\ stage = "idle"
    /\ \E t \in Texts \cup LongTexts :
          /\ src' = [str |-> t]
          /\ mid' = Clean_into_Bytes("TalkRequest", [str |-> t])
    /\ stage' = "talk_request"
    /\ kind' = "TalkRequest"
    /\ fin' = NoVal
    /\ UNCHANGED <<bigEndian, botVars, loopVars>>

\* the driver drops its values and starts over
Reset ==
    /\ stage # "idle"
    /\ stage' = "idle"
    /\ kind' = "none"
    /\ src' = NoVal
    /\ mid' = NoVal
    /\ fin' = NoVal
    /\ UNCHANGED <<bigEndian, botVars, loopVars>>

CodecNext ==
    \/ EncodeClean
    \/ DecodeEncoded
    \/ ParseBytes
    \/ CleanParsed
    \/ EncodeParsed
    \/ ParsePose
    \/ EncodePose
    \/ BotNew
    \/ BotJoinRequest
    \/ EncodeTalkRequest
    \/ Reset

CodecSpec == CodecInit /\ [][CodecNext]_vars

----------------------------------------------------------------------------
(* Strings of the bot runtime *)

\* A String is modelled by its UTF-8 bytes.  CStr::to_string_lossy is
\* String::from_utf8_lossy over to_bytes(): every maximal invalid prefix of
\* an ill-formed sequence becomes U+FFFD (EF BF BD), valid sequences are
\* copied.
REPLACEMENT_CHARACTER == <<239, 191, 189>>

is_continuation(v, i) == i <= Len(v) /\ v[i] >= 128 /\ v[i] <= 191

\* second byte allowed after the leading byte b of a 3- or 4-byte sequence
second_byte_ok(b, v, i) ==
    /\ i <= Len(v)
    /\ CASE b = 224 -> v[i] >= 160 /\ v[i] <= 191
         [] b = 237 -> v[i] >= 128 /\ v[i] <= 159
         [] b = 240 -> v[i] >= 144 /\ v[i] <= 191
         [] b = 244 -> v[i] >= 128 /\ v[i] <= 143
         [] OTHER -> v[i] >= 128 /\ v[i] <= 191

\* the chunk starting at index i: whether it is valid, and its length
utf8_chunk(v, i) ==
    LET b == v[i]
    IN  CASE b < 128 -> [valid |-> TRUE, len |-> 1]
          [] b >= 194 /\ b <= 223 ->
                IF is_continuation(v, i + 1)
                THEN [valid |-> TRUE, len |-> 2]
                ELSE [valid |-> FALSE, len |-> 1]
          [] b >= 224 /\ b <= 239 ->
                IF ~second_byte_ok(b, v, i + 1)
                THEN [valid |-> FALSE, len |-> 1]
                ELSE IF ~is_continuation(v, i + 2)
                THEN [valid |-> FALSE, len |-> 2]
                ELSE [valid |-> TRUE, len |-> 3]
          [] b >= 240 /\ b <= 244 ->
                IF ~second_byte_ok(b, v, i + 1)
                THEN [valid |-> FALSE, len |-> 1]
                ELSE IF ~is_continuation(v, i + 2)
                THEN [valid |-> FALSE, len |-> 2]
                ELSE IF ~is_continuation(v, i + 3)
                THEN [valid |-> FALSE, len |-> 3]
                ELSE [valid |-> TRUE, len |-> 4]
          [] OTHER -> [valid |-> FALSE, len |-> 1]

RECURSIVE from_utf8_lossy(_, _)
from_utf8_lossy(v, i) ==
    IF i > Len(v) THEN <<>>
    ELSE LET c == utf8_chunk(v, i)
         IN  (IF c.valid THEN SubSeq(v, i, i + c.len - 1)
              ELSE REPLACEMENT_CHARACTER)
                 \o from_utf8_lossy(v, i + c.len)

to_string_lossy(cstring) == from_utf8_lossy(cstring, 1)

\* a replace that leaves the string as it is
replace_nul_keep(string) == string

\* String::replace('\u{0}', ""): U+0000 is the byte 0 and nothing else
replace_nul(string) == SelectSeq(string, LAMBDA b : b # 0)

\* the text patch_world stores for a name or a talk str
stored_text(cstring, replace_invalid_utf8) ==
    IF replace_invalid_utf8
    THEN replace_nul(to_string_lossy(cstring))
    ELSE to_string_lossy(cstring)

----------------------------------------------------------------------------
(* Bot::run: the handshake *)

\* messages the transport can yield to ws_r.next()
Binary(data) == [type |-> "Binary", data |-> data]

TextMessage == [type |-> "Text", data |-> <<>>]

TransportError == [type |-> "Error", data |-> <<>>]

StreamEnd == [type |-> "None", data |-> <<>>]

\* the join response taken from the first message: every arm but a Binary
\* frame of JOIN_RSP_SIZE bytes panics; the token of the frame is not read
Bot_run_join_rsp(message) ==
    CASE message.type = "None" -> Panic
      [] message.type = "Error" -> Panic
      [] message.type = "Binary" ->
            LET raw == RawJoinResponse_try_from(message.data)
            IN  IF raw.tag = "Ok" THEN JoinResponse_from(raw.val) ELSE Panic
      [] OTHER -> Panic

Default_PlayerPose ==
    [animation |-> 0, frame |-> 0, action_or_mount |-> 0,
     position |-> <<<<0, 0, 0, 0>>, <<0, 0, 0, 0>>, <<0, 0, 0, 0>>>>,
     direction |-> <<0, 0, 0, 0>>, sprite |-> 0]

\* a Player that keeps Default::default() for the id as well
Bot_run_bot_default_id(self, join_rsp) ==
    [nickname |-> self.nickname,
     pose |-> Default_PlayerPose,
     id |-> 0]

\* the bot's own Player built from the join response
Bot_run_bot(self, join_rsp) ==
    [nickname |-> self.nickname,
     pose |-> Default_PlayerPose,
     id |-> join_rsp.id]

\* the World built from the join response
Bot_run_world(join_rsp) ==
    [max_clients |-> join_rsp.max_clients,
     clients |-> <<>>,
     messages |-> <<>>,
     lag |-> <<0, 0, 0>>]

----------------------------------------------------------------------------
(* patch_world *)

\* a dispatch that takes the lag response token 'l' for an exit broadcast
patch_world_arm_lag_as_exit(token) ==
    CASE token = 106 -> "JoinBroadcast"
      [] token = 101 \/ token = 108 -> "ExitBroadcast"
      [] token = 112 -> "PoseBroadcast"
      [] token = 116 -> "TalkBroadcast"
      [] OTHER -> "none"

\* match data[0]: the broadcast the frame is decoded as, "none" for the
\* catch-all arm
patch_world_arm(token) ==
    CASE token = 106 -> "JoinBroadcast"
      [] token = 101 -> "ExitBroadcast"
      [] token = 112 -> "PoseBroadcast"
      [] token = 116 -> "TalkBroadcast"
      [] OTHER -> "none"

\* an arm that locks and mutates the World before it awaits the callback
patch_world_steps_mutate_first == <<"lock", "mutate", "callback">>

\* an arm that takes the MutexGuard of the World before it awaits the
\* callback
patch_world_steps_lock_first == <<"lock", "callback", "mutate">>

\* the order of an arm after decoding: the callback is awaited, then
\* world.lock() is awaited, then the World is mutated under the guard
patch_world_steps == <<"callback", "lock", "mutate">>

\* world.clients.iter().position(|c| c.id == id)
position(clients, id) ==
    IF \E i \in 1..Len(clients) : clients[i].id = id
    THEN Some(CHOOSE i \in 1..Len(clients) :
                 /\ clients[i].id = id
                 /\ \A j \in 1..(i - 1) : clients[j].id # id)
    ELSE None

\* Vec::remove(idx), idx counted from 1 here
remove(v, idx) == SubSeq(v, 1, idx - 1) \o SubSeq(v, idx + 1, Len(v))

\* the mutation of each arm, applied to the World; now stands for
\* Instant::now()
\* a join arm that puts the new Player at the front of the list
patch_world_join_front(w, join_brc, replace_invalid_utf8) ==
    Ok([w EXCEPT !.clients =
            <<[nickname |-> stored_text(join_brc.name, replace_invalid_utf8),
               pose |-> join_brc.player_pose,
               id |-> join_brc.id]>> \o @])

patch_world_join(w, join_brc, replace_invalid_utf8) ==
    Ok([w EXCEPT !.clients =
            Append(@, [nickname |-> stored_text(join_brc.name,
                                                replace_invalid_utf8),
                       pose |-> join_brc.player_pose,
                       id |-> join_brc.id])])

\* an exit arm that leaves the World alone when it does not find the id
patch_world_exit_lenient(w, exit_brc) ==
    LET idx == position(w.clients, exit_brc.id)
    IN  IF idx = None THEN Ok(w)
        ELSE Ok([w EXCEPT !.clients = remove(@, idx.val)])

patch_world_exit(w, exit_brc) ==
    LET idx == position(w.clients, exit_brc.id)
    IN  IF idx = None THEN Panic
        ELSE Ok([w EXCEPT !.clients = remove(@, idx.val)])

\* a pose arm that adds the participant it does not find
patch_world_pose_upsert(w, pose_brc) ==
    LET idx == position(w.clients, pose_brc.id)
    IN  IF idx = None
        THEN Ok([w EXCEPT !.clients =
                    Append(@, [nickname |-> <<>>,
                               pose |-> pose_brc.player_pose,
                               id |-> pose_brc.id])])
        ELSE Ok([w EXCEPT !.clients[idx.val].pose = pose_brc.player_pose])

\* a pose arm that puts a new Player without a name in the place of the
\* one it finds
patch_world_pose_replace(w, pose_brc) ==
    LET idx == position(w.clients, pose_brc.id)
    IN  IF idx = None THEN Ok(w)
        ELSE Ok([w EXCEPT !.clients[idx.val] =
                    [nickname |-> <<>>,
                     pose |-> pose_brc.player_pose,
                     id |-> pose_brc.id]])

patch_world_pose(w, pose_brc) ==
    LET idx == position(w.clients, pose_brc.id)
    IN  IF idx = None THEN Ok(w)
        ELSE Ok([w EXCEPT !.clients[idx.val].pose = pose_brc.player_pose])

\* a talk arm that keeps only the latest Message
patch_world_talk_latest(w, talk_brc, replace_invalid_utf8, now) ==
    Ok([w EXCEPT !.messages =
            <<[content |-> stored_text(talk_brc.str, replace_invalid_utf8),
               author |-> talk_brc.id,
               when |-> now]>>])

patch_world_talk(w, talk_brc, replace_invalid_utf8, now) ==
    Ok([w EXCEPT !.messages =
            Append(@, [content |-> stored_text(talk_brc.str,
                                               replace_invalid_utf8),
                       author |-> talk_brc.id,
                       when |-> now])])

\* a patch_world whose join arm also counts the join in the lag stamp
patch_world_mutate_stamped(w, arm, brc, replace_invalid_utf8, now) ==
    CASE arm = "JoinBroadcast" ->
            Ok([patch_world_join(w, brc, replace_invalid_utf8).val
                    EXCEPT !.lag = <<0, 0, 1>>])
      [] arm = "ExitBroadcast" -> patch_world_exit(w, brc)
      [] arm = "PoseBroadcast" -> patch_world_pose(w, brc)
      [] arm = "TalkBroadcast" ->
            patch_world_talk(w, brc, replace_invalid_utf8, now)

patch_world_mutate(w, arm, brc, replace_invalid_utf8, now) ==
    CASE arm = "JoinBroadcast" -> patch_world_join(w, brc, replace_invalid_utf8)
      [] arm = "ExitBroadcast" -> patch_world_exit(w, brc)
      [] arm = "PoseBroadcast" -> patch_world_pose(w, brc)
      [] arm = "TalkBroadcast" ->
            patch_world_talk(w, brc, replace_invalid_utf8, now)

----------------------------------------------------------------------------
(* Inputs of the bot runtime *)

\* inbound messages given to the receiver task after the handshake
MaxFrames == 3

\* "bot"; a nickname holding a nul byte; a nickname of 32 bytes, which only
\* a build without debug assertions lets through Bot::new
Nicknames == {<<98, 111, 116>>, <<98, 0, 116>>, Repeat(97, 32)}

Bots ==
    {b.val : b \in {r \in {Bot_new(n, replace, dbg) :
                             n \in Nicknames, replace \in BOOLEAN,
                             dbg \in BOOLEAN} : r.tag = "Ok"}}

\* animation 1, frame 2, action 0, position [1.0, 2.0, 3.0], direction 0.5,
\* sprite 7
MovedPose ==
    [animation |-> 1, frame |-> 2, action_or_mount |-> 0,
     position |-> <<<<63, 128, 0, 0>>, <<64, 0, 0, 0>>, <<64, 64, 0, 0>>>>,
     direction |-> <<63, 0, 0, 0>>, sprite |-> 7]

\* frames as this build's own encoder writes them
JoinFrame(id, name) ==
    Clean_into_Bytes("JoinBroadcast",
        [player_pose |-> Default_PlayerPose, id |-> id, name |-> name]).val

ExitFrame(id) == Clean_into_Bytes("ExitBroadcast", [id |-> id]).val

PoseFrame(id) ==
    Clean_into_Bytes("PoseBroadcast",
        [player_pose |-> MovedPose, id |-> id]).val

TalkFrame(id, str) ==
    Clean_into_Bytes("TalkBroadcast", [id |-> id, str |-> str]).val

\* max_clients 10, id 5: [b'j', 10, 0x05, 0x00] where the low byte comes first
JoinResponseFrame ==
    Clean_into_Bytes("JoinResponse", [max_clients |-> 10, id |-> 5]).val

\* a lag response: token 'l' and a stamp
LagFrame == <<108, 1, 2, 3>>

\* a pose request: token 'P'
RequestFrame ==
    Clean_into_Bytes("PoseRequest", [player_pose |-> MovedPose]).val

\* join of 5 as "a" and an invalid byte, join of 258 as U+00E9, exit of 5,
\* pose of 5 and of 6 (who never joins), talk of 5 with an invalid byte
Frames ==
    {JoinResponseFrame,
     JoinFrame(5, <<97, 255>>),
     JoinFrame(258, <<195, 169>>),
     ExitFrame(5),
     PoseFrame(5),
     PoseFrame(6),
     TalkFrame(5, <<104, 255>>),
     LagFrame,
     RequestFrame,
     <<>>}

Messages ==
    {Binary(f) : f \in Frames} \cup {TextMessage, TransportError, StreamEnd}

----------------------------------------------------------------------------
(* The bot runtime: Bot::run, the receiver task, patch_world *)

\* a tokio Mutex nobody holds
Free == "free"

BotInitWith(bots) ==
    /\ bigEndian \in BOOLEAN
    /\ stage = "bot"
    /\ kind = "none"
    /\ src = NoVal
    /\ mid = NoVal
    /\ fin = NoVal
    /\ self_ \in bots
    /\ run = "new"
    /\ sent = <<>>
    /\ first = NoVal
    /\ bot = NoVal
    /\ world = NoVal
    /\ receiver = "none"
    /\ receiver_finished = FALSE
    /\ sender = "none"
    /\ sender_finished = FALSE
    /\ cur = NoVal
    /\ received = 0
    /\ hist = <<>>
    /\ bot_lock = Free
    /\ world_lock = Free
    /\ queue = <<>>
    /\ enqueued = 0
    /\ outgoing = NoVal
    /\ talked = <<>>
    /\ write_failed = FALSE
    /\ caller = "none"
    /\ arrived = <<>>

BotInit == BotInitWith(Bots)

\* Bot::run up to the first ws_r.next().await: connect, build the join
\* request, send it
BotRunConnect ==
    /\ run = "new"
    /\ \E connected \in BOOLEAN, delivered \in BOOLEAN :
          LET join_req == Bot_run_join_req(self_)
          IN  IF ~connected \/ join_req.tag = "Err"
              THEN run' = "Err" /\ sent' = sent
              ELSE IF join_req.tag = "Panic" \/ ~delivered
              THEN run' = "Panic" /\ sent' = sent
              ELSE run' = "awaiting" /\ sent' = Append(sent, join_req.val)
    /\ UNCHANGED <<codecVars, self_, first, bot, world, receiver,
                   receiver_finished, sender, sender_finished, cur,
                   received, hist, loopVars>>

\* Bot::run from the first inbound message to the second tokio::spawn: the
\* join response is unwrapped, the Player and the World are built and both
\* tasks are spawned; the runtime may poll them from now on
BotRunJoinResponseFrom(messages) ==
    /\ run = "awaiting"
    /\ \E message \in messages :
          LET join_rsp == Bot_run_join_rsp(message)
          IN  /\ first' = message
              /\ IF join_rsp.tag = "Ok"
                 THEN /\ run' = "spawned"
                      /\ bot' = Bot_run_bot(self_, join_rsp.val)
                      /\ world' = Bot_run_world(join_rsp.val)
                      /\ sender' = "spawned"
                      /\ receiver' = "next"
                 ELSE /\ run' = "Panic"
                      /\ UNCHANGED <<bot, world, sender, receiver>>
    /\ UNCHANGED <<codecVars, self_, sent, receiver_finished,
                   sender_finished, cur, received, hist, bot_lock,
                   world_lock, queue, enqueued, outgoing, talked,
                   write_failed, caller, arrived>>

BotRunJoinResponse == BotRunJoinResponseFrom(Messages)

\* Bot::run returns Ok with the handles of both tasks, their finished flags
\* and the BotData; the caller goes on with them
BotRunReturn ==
    /\ run = "spawned"
    /\ run' = "Ok"
    /\ caller' = "idle"
    /\ UNCHANGED <<codecVars, self_, sent, first, bot, world, receiver,
                   receiver_finished, sender, sender_finished, cur,
                   received, hist, bot_lock, world_lock, queue, enqueued,
                   outgoing, talked, write_failed, arrived>>

\* what hist keeps of a frame given to patch_world: its place among the
\* messages, the frame, the arm taken, how the callback returned, whether
\* the mutation was applied, how patch_world ended, and the Player and World
\* before and after
Observed(data, arm, outcome) ==
    [seq |-> received + 1, data |-> data, arm |-> arm,
     callback |-> "none", mutated |-> FALSE,
     outcome |-> outcome, before |-> <<bot, world>>,
     after |-> IF outcome = "Ok" THEN <<bot, world>> ELSE NoVal]

\* tasks of which either is only polled while the other has not ended
scheduled_with_sibling(task) ==
    IF task = "sender" THEN receiver \notin {"Ok", "Err", "Panic"}
    ELSE sender # "Err"

\* tokio::spawn: the runtime polls each spawned task on its own, whatever
\* became of the other
scheduled(task) == TRUE

\* an Err arm that drops the error and goes on with the loop
receiver_on_error_continue == [finished |-> FALSE, receiver |-> "next"]

\* an Err arm that sets the flag and goes on with the loop
receiver_on_error_flag_only == [finished |-> TRUE, receiver |-> "next"]

\* patch_world returned Err (or the transport did): the flag is set and the
\* task returns the error
receiver_on_error == [finished |-> TRUE, receiver |-> "Err"]

\* a receiver that spawns patch_world and takes the next message at once
spawn_patch_world(step) == "next"

\* patch_world(..).await in the receiver task: the task is at the await of
\* patch_world until patch_world returns
await_patch_world(step) == step

\* ws_r.next().await yields a message; a Binary frame enters patch_world up
\* to the first await of its arm.  callbacks are the behaviours the user
\* callback of the frame may have.
ReceiverNextFrom(messages, callbacks, max) ==
    /\ receiver = "next"
    /\ scheduled("receiver")
    /\ received < max
    /\ received' = received + 1
    /\ \E message \in messages :
          CASE message.type = "None" ->
                  /\ receiver' = "Ok"
                  /\ UNCHANGED <<receiver_finished, cur, hist, arrived>>
            [] message.type = "Error" ->
                  /\ receiver' = receiver_on_error.receiver
                  /\ receiver_finished' = receiver_on_error.finished
                  /\ UNCHANGED <<cur, hist, arrived>>
            [] message.type = "Binary" ->
                  LET data == message.data
                      arm == patch_world_arm(At(data, 0))
                      brc == Clean_try_from(arm, data)
                  IN  /\ arrived' = Append(arrived, data)
                      /\ IF Len(data) = 0
                         THEN /\ receiver' = "Panic"
                              /\ hist' = Append(hist,
                                            Observed(data, "none", "Panic"))
                              /\ UNCHANGED <<receiver_finished, cur>>
                         ELSE IF arm = "none"
                         THEN /\ receiver' = "next"
                              /\ hist' = Append(hist,
                                            Observed(data, arm, "Ok"))
                              /\ UNCHANGED <<receiver_finished, cur>>
                         ELSE IF brc.tag = "Err"
                         THEN /\ receiver' = receiver_on_error.receiver
                              /\ receiver_finished' =
                                    receiver_on_error.finished
                              /\ hist' = Append(hist,
                                            Observed(data, arm, "Err"))
                              /\ cur' = cur
                         ELSE IF brc.tag = "Panic"
                         THEN /\ receiver' = "Panic"
                              /\ hist' = Append(hist,
                                            Observed(data, arm, "Panic"))
                              /\ UNCHANGED <<receiver_finished, cur>>
                         ELSE /\ receiver' =
                                    await_patch_world(patch_world_steps[1])
                              /\ \E callback \in callbacks :
                                    cur' = [arm |-> arm, brc |-> brc.val,
                                            step |-> 1, callback |-> callback]
                              /\ hist' = Append(hist,
                                            Observed(data, arm, "pending"))
                              /\ UNCHANGED receiver_finished
            [] OTHER ->
                  /\ receiver' = "next"
                  /\ UNCHANGED <<receiver_finished, cur, hist, arrived>>
    /\ UNCHANGED <<codecVars, self_, run, sent, first, bot, world, sender,
                   sender_finished, bot_lock, world_lock, queue, enqueued,
                   outgoing, talked, write_failed, caller>>

\* a callback that only looks at what it is given
Observer == <<>>

ReceiverNext == ReceiverNextFrom(Messages, {Observer}, MaxFrames)

\* a MutexGuard that is kept past the return of patch_world
Dropped_kept(lock) == lock

\* the MutexGuard of the World, if patch_world has one, is dropped when
\* patch_world returns or unwinds
Dropped(lock) == IF lock = "receiver" THEN Free ELSE lock

\* the step of patch_world after the current one, or its return with Ok(())
\* leaving the World as w; lock is the World's Mutex after the current step
StepDone(h, w, lock) ==
    IF cur.step = Len(patch_world_steps)
    THEN /\ receiver' = "next"
         /\ cur' = NoVal
         /\ world_lock' = Dropped(lock)
         /\ hist' = [hist EXCEPT ![Len(hist)] =
                        [h EXCEPT !.outcome = "Ok",
                                  !.after = <<bot, w>>]]
    ELSE /\ receiver' = patch_world_steps[cur.step + 1]
         /\ cur' = [cur EXCEPT !.step = @ + 1]
         /\ world_lock' = lock
         /\ hist' = [hist EXCEPT ![Len(hist)] = h]

\* the user callback of the arm returns
ReceiverCallback ==
    /\ receiver = "callback"
    /\ scheduled("receiver")
    /\ cur.callback = <<>>
    /\ \E ok \in BOOLEAN :
          IF ok
          THEN /\ StepDone([hist[Len(hist)] EXCEPT !.callback = "Ok"],
                           world, world_lock)
               /\ UNCHANGED receiver_finished
          ELSE /\ receiver' = receiver_on_error.receiver
               /\ receiver_finished' = receiver_on_error.finished
               /\ cur' = NoVal
               /\ world_lock' = Dropped(world_lock)
               /\ hist' = [hist EXCEPT ![Len(hist)] =
                              [@ EXCEPT !.callback = "Err",
                                        !.outcome = "Err"]]
    /\ UNCHANGED <<codecVars, self_, run, sent, first, bot, world, sender,
                   sender_finished, received, bot_lock, queue, enqueued,
                   outgoing, talked, write_failed, caller, arrived>>

\* world.lock().await returns the MutexGuard
ReceiverLock ==
    /\ receiver = "lock"
    /\ scheduled("receiver")
    /\ world_lock = Free
    /\ StepDone(hist[Len(hist)], world, "receiver")
    /\ UNCHANGED <<codecVars, self_, run, sent, first, bot, world, sender,
                   sender_finished, received, receiver_finished, bot_lock,
                   queue, enqueued, outgoing, talked, write_failed, caller,
                   arrived>>

\* the mutation of the arm is applied under the MutexGuard
ReceiverMutate ==
    /\ receiver = "mutate"
    /\ scheduled("receiver")
    /\ LET result == patch_world_mutate(world, cur.arm, cur.brc,
                                        self_.replace_invalid_utf8, received)
       IN  IF result.tag = "Panic"
           THEN /\ receiver' = "Panic"
                /\ cur' = NoVal
                /\ world' = world
                /\ world_lock' = Dropped(world_lock)
                /\ hist' = [hist EXCEPT ![Len(hist)] =
                               [@ EXCEPT !.outcome = "Panic"]]
           ELSE /\ world' = result.val
                /\ StepDone([hist[Len(hist)] EXCEPT !.mutated = TRUE],
                            result.val, world_lock)
    /\ UNCHANGED <<codecVars, self_, run, sent, first, bot, sender,
                   sender_finished, received, receiver_finished, bot_lock,
                   queue, enqueued, outgoing, talked, write_failed, caller,
                   arrived>>

BotNext ==
    \/ BotRunConnect
    \/ BotRunJoinResponse
    \/ BotRunReturn
    \/ ReceiverNext
    \/ ReceiverCallback
    \/ ReceiverLock
    \/ ReceiverMutate

BotSpec == BotInit /\ [][BotNext]_vars

----------------------------------------------------------------------------
(* The two tasks together: sender task, callbacks and the caller *)

\* Strings sent into the channel over a run
MaxQueued == 2

\* frames kept in sent; later writes are made but not recorded
MaxSent == 2

\* messages given to the receiver task when the sender task runs as well
MaxLoopFrames == 1

\* "hi", and a String holding U+0000, which CString::new rejects
Strings == {<<104, 105>>, <<104, 0>>}

\* what a user callback does with its handles before it returns: nothing,
\* lock the World and send a String, lock the Player and the World
CallbackPrograms ==
    {Observer,
     <<"lock_world", "send", "unlock_world">>,
     <<"lock_bot", "lock_world", "unlock_world", "unlock_bot">>}

LoopBots == {[nickname |-> <<98, 111, 116>>, replace_invalid_utf8 |-> TRUE]}

LoopFirstMessages == {Binary(JoinResponseFrame), TextMessage}

LoopMessages ==
    {Binary(JoinFrame(5, <<97, 255>>)),
     TransportError,
     StreamEnd}

\* sent with one more frame written
Written(frames, frame) ==
    IF Len(frames) < MaxSent THEN Append(frames, frame) ELSE frames

\* a try_recv that finds the channel empty every time
try_recv_never(channel) == Err("Empty")

\* a try_recv that hands out the first String and leaves it in the channel
try_recv_peek(channel) ==
    IF channel = <<>> THEN Err("Empty")
    ELSE Ok([item |-> Head(channel), rest |-> channel])

\* crossbeam Receiver::try_recv on the unbounded channel
try_recv(channel) ==
    IF channel = <<>> THEN Err("Empty")
    ELSE Ok([item |-> Head(channel), rest |-> Tail(channel)])

\* crossbeam Sender::send: the String goes to the back of the channel; it
\* is marked late when the sender task is draining at that moment.  With
\* the sender task gone the channel is disconnected and send fails.
send(channel, str) ==
    IF sender = "Err" THEN channel
    ELSE Append(channel, [str |-> str, ticket |-> enqueued + 1,
                          late |-> sender \in {"drain", "talk"}])

\* CString::new(m)
CString_new(m) ==
    IF \E i \in 1..Len(m) : m[i] = 0 THEN Err([type |-> "NulError"])
    ELSE Ok(m)

\* a sender task that tries again from the top of its loop
sender_on_error_retry == [finished |-> FALSE, sender |-> "spawned"]

\* the Err arms of the sender task: the flag is set and the task returns
\* the error
sender_on_error == [finished |-> TRUE, sender |-> "Err"]

\* a pose request that carries Default::default() whatever the Player holds
Bot_run_pose_req_default(player) ==
    Clean_into_Bytes("PoseRequest", [player_pose |-> Default_PlayerPose]).val

\* PoseRequest { player_pose: s_bot.lock().await.pose.clone() }.into()
Bot_run_pose_req(player) ==
    Clean_into_Bytes("PoseRequest", [player_pose |-> player.pose]).val

LoopsInit == BotInitWith(LoopBots)

LoopsRunJoinResponse == BotRunJoinResponseFrom(LoopFirstMessages)

LoopsReceiverNext ==
    ReceiverNextFrom(LoopMessages, CallbackPrograms, MaxLoopFrames)

\* the next operation of the running callback
CallbackStep ==
    /\ receiver = "callback"
    /\ scheduled("receiver")
    /\ cur.callback # <<>>
    /\ LET op == Head(cur.callback)
       IN  /\ cur' = [cur EXCEPT !.callback = Tail(@)]
           /\ CASE op = "lock_bot" ->
                     /\ bot_lock = Free
                     /\ bot_lock' = "callback"
                     /\ UNCHANGED <<world_lock, queue, enqueued>>
                [] op = "unlock_bot" ->
                     /\ bot_lock' = Free
                     /\ UNCHANGED <<world_lock, queue, enqueued>>
                [] op = "lock_world" ->
                     /\ world_lock = Free
                     /\ world_lock' = "callback"
                     /\ UNCHANGED <<bot_lock, queue, enqueued>>
                [] op = "unlock_world" ->
                     /\ world_lock' = Free
                     /\ UNCHANGED <<bot_lock, queue, enqueued>>
                [] op = "send" ->
                     /\ IF enqueued < MaxQueued /\ sender # "Err"
                        THEN /\ queue' = send(queue, <<104, 105>>)
                             /\ enqueued' = enqueued + 1
                        ELSE UNCHANGED <<queue, enqueued>>
                     /\ UNCHANGED <<bot_lock, world_lock>>
    /\ UNCHANGED <<codecVars, self_, run, sent, first, bot, world, receiver,
                   receiver_finished, sender, sender_finished, received,
                   hist, outgoing, talked, write_failed, caller, arrived>>

\* top of the loop: s_bot.lock().await returns the MutexGuard, the pose is
\* cloned and the write of the pose request starts
SenderLockBot ==
    /\ sender = "spawned"
    /\ scheduled("sender")
    /\ bot_lock = Free
    /\ bot_lock' = "sender"
    /\ sender' = "pose"
    /\ outgoing' = Bot_run_pose_req(bot)
    /\ queue' = [i \in 1..Len(queue) |-> [queue[i] EXCEPT !.late = FALSE]]
    /\ UNCHANGED <<codecVars, self_, run, sent, first, bot, world, receiver,
                   receiver_finished, sender_finished, cur, received, hist,
                   world_lock, enqueued, talked, write_failed, caller,
                   arrived>>

\* ws_s.send(pose request).await returns; the MutexGuard of the Player, a
\* temporary of the match scrutinee, is dropped after the match
SenderPose ==
    /\ sender = "pose"
    /\ scheduled("sender")
    /\ \E delivered \in BOOLEAN :
          IF delivered
          THEN /\ sent' = Written(sent, outgoing)
               /\ sender' = "drain"
               /\ UNCHANGED <<sender_finished, write_failed>>
          ELSE /\ sender' = sender_on_error.sender
               /\ sender_finished' = sender_on_error.finished
               /\ write_failed' = TRUE
               /\ sent' = sent
    /\ bot_lock' = Free
    /\ outgoing' = NoVal
    /\ UNCHANGED <<codecVars, self_, run, first, bot, world, receiver,
                   receiver_finished, cur, received, hist, world_lock,
                   queue, enqueued, talked, caller, arrived>>

\* while let Ok(m) = try_recv(): the channel is empty and the task sleeps
\* and starts over, or a String is taken, made a CString and its write
\* starts
SenderTryRecv ==
    /\ sender = "drain"
    /\ scheduled("sender")
    /\ LET m == try_recv(queue)
       IN  IF m.tag = "Err"
           THEN /\ sender' = "spawned"
                /\ UNCHANGED <<queue, outgoing, sender_finished,
                               write_failed>>
           ELSE /\ queue' = m.val.rest
                /\ IF CString_new(m.val.item.str).tag = "Err"
                   THEN /\ sender' = sender_on_error.sender
                        /\ sender_finished' = sender_on_error.finished
                        /\ write_failed' = TRUE
                        /\ outgoing' = outgoing
                   ELSE /\ sender' = "talk"
                        /\ outgoing' = m.val.item
                        /\ UNCHANGED <<sender_finished, write_failed>>
    /\ UNCHANGED <<codecVars, self_, run, sent, first, bot, world, receiver,
                   receiver_finished, cur, received, hist, bot_lock,
                   world_lock, enqueued, talked, caller, arrived>>

\* ws_s.send(talk request).await returns
SenderTalk ==
    /\ sender = "talk"
    /\ scheduled("sender")
    /\ \E delivered \in BOOLEAN :
          IF delivered
          THEN /\ sent' = Written(sent,
                             Clean_into_Bytes("TalkRequest",
                                 [str |-> outgoing.str]).val)
               /\ talked' = Append(talked, outgoing)
               /\ sender' = "drain"
               /\ UNCHANGED <<sender_finished, write_failed>>
          ELSE /\ sender' = sender_on_error.sender
               /\ sender_finished' = sender_on_error.finished
               /\ write_failed' = TRUE
               /\ UNCHANGED <<sent, talked>>
    /\ outgoing' = NoVal
    /\ UNCHANGED <<codecVars, self_, run, first, bot, world, receiver,
                   receiver_finished, cur, received, hist, bot_lock,
                   world_lock, queue, enqueued, caller, arrived>>

\* the caller of Bot::run locks the Player it was handed
CallerLockBot ==
    /\ caller = "idle"
    /\ bot_lock = Free
    /\ bot_lock' = "caller"
    /\ caller' = "bot"
    /\ UNCHANGED <<codecVars, botVars, world_lock, queue, enqueued,
                   outgoing, talked, write_failed, arrived>>

\* the caller sets the pose of the Player and drops the guard
CallerUnlockBot ==
    /\ caller = "bot"
    /\ bot' = [bot EXCEPT !.pose = MovedPose]
    /\ bot_lock' = Free
    /\ caller' = "idle"
    /\ UNCHANGED <<codecVars, self_, run, sent, first, world, receiver,
                   receiver_finished, sender, sender_finished, cur,
                   received, hist, world_lock, queue, enqueued, outgoing,
                   talked, write_failed, arrived>>

\* the caller locks the World it was handed
CallerLockWorld ==
    /\ caller = "idle"
    /\ world_lock = Free
    /\ world_lock' = "caller"
    /\ caller' = "world"
    /\ UNCHANGED <<codecVars, botVars, bot_lock, queue, enqueued, outgoing,
                   talked, write_failed, arrived>>

\* the caller has read the World and drops the guard
CallerUnlockWorld ==
    /\ caller = "world"
    /\ world_lock' = Free
    /\ caller' = "idle"
    /\ UNCHANGED <<codecVars, botVars, bot_lock, queue, enqueued, outgoing,
                   talked, write_failed, arrived>>

\* the caller sends a String through its MessageSender
CallerSend ==
    /\ caller = "idle"
    /\ enqueued < MaxQueued
    /\ sender # "Err"
    /\ \E str \in Strings : queue' = send(queue, str)
    /\ enqueued' = enqueued + 1
    /\ UNCHANGED <<codecVars, botVars, bot_lock, world_lock, outgoing,
                   talked, write_failed, caller, arrived>>

LoopsNext ==
    \/ BotRunConnect
    \/ LoopsRunJoinResponse
    \/ BotRunReturn
    \/ LoopsReceiverNext
    \/ CallbackStep
    \/ ReceiverCallback
    \/ ReceiverLock
    \/ ReceiverMutate
    \/ SenderLockBot
    \/ SenderPose
    \/ SenderTryRecv
    \/ SenderTalk
    \/ CallerLockBot
    \/ CallerUnlockBot
    \/ CallerLockWorld
    \/ CallerUnlockWorld
    \/ CallerSend

LoopsSpec == LoopsInit /\ [][LoopsNext]_vars

\* tokio schedules every spawned task again and again and its Mutex hands
\* the lock to waiters in the order they asked; callbacks and the caller
\* drop their guards
LoopsFairSpec ==
    /\ LoopsSpec
    /\ SF_vars(SenderLockBot)
    /\ WF_vars(SenderPose)
    /\ WF_vars(SenderTryRecv)
    /\ WF_vars(SenderTalk)
    /\ SF_vars(CallbackStep)
    /\ WF_vars(CallerUnlockBot)
    /\ WF_vars(CallerUnlockWorld)


----------------------------------------------------------------------------
(* Properties of the codec *)

\* a clean value the encoders are meant to accept: the name fits its field
WellFormed(k, v) ==
    CASE k = "JoinRequest" -> Len(v.name) <= 31
      [] k = "JoinBroadcast" -> Len(v.name) <= 32
      [] OTHER -> TRUE

\* the bytes of a field before its first zero byte, the whole field if none
BeforeFirstZero(field) ==
    LET zeros == {i \in 1..Len(field) : field[i] = 0}
    IN  IF zeros = {} THEN field
        ELSE SubSeq(field, 1, (CHOOSE i \in zeros : \A j \in zeros : i <= j) - 1)

KindsWithId ==
    {"JoinResponse", "JoinBroadcast", "ExitBroadcast", "PoseBroadcast",
     "TalkBroadcast"}

\* frame lengths as documented in the wire-format table
DocumentedSize(k) ==
    CASE k = "PlayerPose" -> 23
      [] k = "JoinRequest" -> 32
      [] k = "JoinResponse" -> 4
      [] k = "JoinBroadcast" -> 58
      [] k = "ExitBroadcast" -> 4
      [] k = "PoseRequest" -> 23
      [] k = "PoseBroadcast" -> 25
      [] k = "LagRequest" -> 4
      [] k = "LagResponse" -> 4

\* frame lengths the encoders produce
ProducedSize(k) ==
    CASE k = "PlayerPose" -> 21
      [] k = "JoinRequest" -> 32
      [] k = "JoinResponse" -> 4
      [] k = "JoinBroadcast" -> 56
      [] k = "ExitBroadcast" -> 4
      [] k = "PoseRequest" -> 22
      [] k = "PoseBroadcast" -> 24
      [] k = "LagRequest" -> 4
      [] k = "LagResponse" -> 4

\* C1: for every packet kind and every well-formed clean value v, decoding
\* the bytes produced by encoding v yields a clean value equal to v.
C1_CleanRoundTrip ==
    (stage = "decoded" /\ WellFormed(kind, src))
        => (fin.tag = "Ok" /\ fin.val = src)

\* C2: for every fixed-size raw packet type and every buffer b of exactly the
\* expected length, encoding the raw packet decoded from b yields b byte for
\* byte, token and padding byte included.
C2_RawRoundTrip ==
    (stage = "reencoded" /\ kind \in FixedKinds)
        => (fin.tag = "Ok" /\ fin.val = src)

\* C3: decoding a fixed-size packet or a PlayerPose from a buffer of another
\* length fails with SizeMismatch(expected size, actual length).
C3_SizeMismatchPair ==
    (stage = "parsed" /\ kind \in FixedKinds \cup {"PlayerPose"}
                      /\ Len(src) # ExpectedSize(kind))
        => (mid.tag = "Err"
            /\ mid.val = SizeMismatch(ExpectedSize(kind), Len(src)))

\* C4 as stated: encoding produces exactly the documented frame lengths
\* (PlayerPose 23, join request 32, join response 4, join broadcast 58, exit
\* broadcast 4, pose request 23, pose broadcast 25, lag 4) and decoding
\* accepts exactly those lengths.
C4_DocumentedLengths ==
    /\ (stage = "encoded" /\ kind \in FixedKinds /\ mid.tag = "Ok")
           => Len(mid.val) = DocumentedSize(kind)
    /\ (stage = "reencoded" /\ kind \in FixedKinds \cup {"PlayerPose"})
           => Len(fin.val) = DocumentedSize(kind)
    /\ (stage = "parsed" /\ kind \in FixedKinds \cup {"PlayerPose"})
           => (mid.tag = "Ok" <=> Len(src) = DocumentedSize(kind))

\* C4 amended: every encoding that completes produces, and raw decoding
\* accepts, exactly these lengths: PlayerPose 21, join request 32, join
\* response 4, join broadcast 56, exit broadcast 4, pose request 22, pose
\* broadcast 24, lag request/response 4.
C4_ProducedLengths ==
    /\ (stage = "encoded" /\ kind \in FixedKinds /\ mid.tag = "Ok")
           => Len(mid.val) = ProducedSize(kind)
    /\ (stage = "reencoded" /\ kind \in FixedKinds \cup {"PlayerPose"})
           => Len(fin.val) = ProducedSize(kind)
    /\ (stage = "parsed" /\ kind \in FixedKinds \cup {"PlayerPose"})
           => (mid.tag = "Ok" <=> Len(src) = ProducedSize(kind))

\* a 56-byte join broadcast was decoded and re-encoded into 56 bytes
C4_Witness ==
    /\ stage = "reencoded"
    /\ kind = "JoinBroadcast"
    /\ Len(src) = 56
    /\ Len(fin.val) = 56

\* C5: encoding a join broadcast whose name is shorter than the 32-byte field
\* fills the rest of the field with zero bytes, and decoding the buffer
\* recovers exactly the original name.
C5_ShortNamePadded ==
    (stage \in {"encoded", "decoded"} /\ kind = "JoinBroadcast"
                                      /\ Len(src.name) < 32)
        => /\ mid.tag = "Ok"
           /\ Len(mid.val) = 24 + 32
           /\ SubSeq(mid.val, 24 + 1, 24 + Len(src.name)) = src.name
           /\ \A i \in (24 + Len(src.name) + 1)..(24 + 32) : mid.val[i] = 0
           /\ stage = "decoded" => (fin.tag = "Ok" /\ fin.val.name = src.name)

\* a join broadcast with a non-empty name shorter than the field went through
\* encode and decode
C5_Witness ==
    /\ stage = "decoded"
    /\ kind = "JoinBroadcast"
    /\ Len(src.name) \in 1..31
    /\ mid.val[24 + 32] = 0
    /\ fin.val.name = src.name

\* C6: decoding a fixed name field yields the bytes before the first zero
\* byte, or the whole field when it holds no zero byte; a join request whose
\* 31-byte field is completely non-zero decodes to that 31-byte name.
C6_NameFieldDecoded ==
    (stage = "cleaned" /\ kind \in {"JoinRequest", "JoinBroadcast"})
        => (fin.tag = "Ok" /\ fin.val.name = BeforeFirstZero(mid.val.name))

\* C7: encoding a join request with a name longer than 31 bytes, or a join
\* broadcast with a name longer than 32 bytes, never panics, and a nickname
\* longer than the wire field does not get through Bot::new.
C7_OverlongNameNoPanic ==
    /\ (stage = "encoded" /\ kind \in {"JoinRequest", "JoinBroadcast"})
           => mid.tag # "Panic"
    /\ (stage = "constructed" /\ Len(src.nickname) > 31) => mid.tag # "Ok"
    /\ stage = "join_request" => fin.tag # "Panic"

\* C8: a talk broadcast whose text region (from offset 4) holds no zero byte
\* fails to decode with the no-terminator error; one whose first zero byte is
\* at position k of the region decodes to exactly the first k bytes.
C8_TalkBroadcastTerminator ==
    (stage \in {"parsed", "cleaned"} /\ kind = "TalkBroadcast" /\ Len(src) >= 4)
        => LET region == SubSeq(src, 4 + 1, Len(src))
           IN  IF \A i \in 1..Len(region) : region[i] # 0
               THEN mid.tag = "Err" /\ mid.val.type = "NoNullByte"
               ELSE /\ mid.tag = "Ok"
                    /\ mid.val.str = BeforeFirstZero(region)
                    /\ stage = "cleaned"
                           => (fin.tag = "Ok"
                               /\ fin.val.str = BeforeFirstZero(region))

\* C9: for every byte buffer of any length and every packet kind, decoding
\* returns a packet or a parse error; it never panics.
C9_DecodeTotal ==
    /\ (stage = "parsed" /\ kind \in PacketKinds) => mid.tag \in {"Ok", "Err"}
    /\ (stage = "cleaned" /\ kind \in PacketKinds) => fin.tag \in {"Ok", "Err"}

\* C10: every 16-bit id is decoded with the byte order it was encoded with,
\* so decode(encode(id)) = id on little-endian and big-endian platforms.
C10_IdByteOrder ==
    (stage = "decoded" /\ kind \in KindsWithId /\ WellFormed(kind, src))
        => (fin.tag = "Ok" /\ fin.val.id = src.id)


----------------------------------------------------------------------------
(* Properties of the bot runtime *)

\* Bot::run has returned Ok: both tasks are spawned
Joined == run = "Ok"

\* Bot::run is over without a running bot
StartupFailed == run \in {"Err", "Panic"}

\* C11: Bot::run reaches Joined only when the first inbound frame is a
\* binary join response, i.e. a Binary frame of JOIN_RSP_SIZE bytes whose
\* leading token is 'j'; any other first frame never gives a running bot.
\* The code does not hold this: RawJoinResponse::try_from checks the length
\* only, so a 4-byte frame with any token is taken as the join response.
C11_JoinedOnlyOnJoinResponse ==
    Joined =>
        /\ first.type = "Binary"
        /\ Len(first.data) = 4
        /\ first.data[1] = 106

\* C12: when the join request cannot be sent, or the first inbound message
\* is non-binary, absent or a transport error, Bot::run ends with an error
\* result (not a panic) and neither task has been spawned.
\* The code does not hold this: each of these cases is an unwrap() or a
\* panic!() in Bot::run.
C12_StartupFailureIsErr ==
    (/\ StartupFailed
     /\ \/ first = NoVal /\ Len(self_.nickname) <= 31
        \/ first # NoVal /\ first.type \in {"Text", "None", "Error"})
        => /\ run = "Err"
           /\ receiver = "none"
           /\ sender = "none"

\* the id a join response frame carries at offsets 2..3 in the byte order
\* of the platform
FrameId(data) ==
    IF bigEndian THEN 256 * data[3] + data[4] ELSE data[3] + 256 * data[4]

\* Bot::run has just returned Ok and the receiver has taken no message yet
JustJoined == Joined /\ received = 0

\* C13: after a successful handshake with a join response carrying
\* max_clients = m and id = i the bot's Player has id i, the configured
\* nickname and the default pose, and the World has max_clients = m, no
\* clients, no messages and lag [0, 0, 0]; the join response for
\* max_clients 10 and id 5 gives 10 and 5.
C13_InitialState ==
    JustJoined =>
        /\ bot = [nickname |-> self_.nickname,
                  pose |-> [animation |-> 0, frame |-> 0,
                            action_or_mount |-> 0,
                            position |-> <<<<0, 0, 0, 0>>, <<0, 0, 0, 0>>,
                                           <<0, 0, 0, 0>>>>,
                            direction |-> <<0, 0, 0, 0>>, sprite |-> 0],
                  id |-> FrameId(first.data)]
        /\ world = [max_clients |-> first.data[2], clients |-> <<>>,
                    messages |-> <<>>, lag |-> <<0, 0, 0>>]
        /\ first.data = JoinResponseFrame
              => bot.id = 5 /\ world.max_clients = 10

C13_Witness ==
    /\ JustJoined
    /\ first.data = JoinResponseFrame
    /\ bot.id = 5
    /\ world.max_clients = 10
    /\ self_.nickname = <<98, 111, 116>>

\* the frame patch_world is working on, or worked on last
Last == hist[Len(hist)]

\* data[0] of an observed frame, -1 for the empty frame
Token(h) == IF Len(h.data) > 0 THEN h.data[1] ELSE -1

\* frames m of 1..n whose leading token is t
FramesWithToken(n, t) == {m \in 1..n : Token(hist[m]) = t}

\* C14: for every inbound join, exit, pose or talk broadcast the callback
\* is invoked and awaited to completion before the mutation of that frame
\* is committed: a mutation is only ever applied after its callback has
\* returned Ok, and while the callback runs the World is as the earlier
\* frames left it (every earlier broadcast applied: one client per join
\* less one per exit, one message per talk) without the current mutation.
C14_CallbackBeforeMutation ==
    /\ \A n \in 1..Len(hist) : hist[n].mutated => hist[n].callback = "Ok"
    /\ receiver = "callback" =>
          /\ ~Last.mutated
          /\ Last.callback = "none"
          /\ world = Last.before[2]
          /\ \A m \in 1..(Len(hist) - 1) :
                /\ hist[m].outcome = "Ok"
                /\ Token(hist[m]) \in {106, 101, 112, 116}
                      => hist[m].mutated /\ hist[m].callback = "Ok"
          /\ Len(hist) > 1 => world = hist[Len(hist) - 1].after[2]
          /\ Len(world.clients) =
                Cardinality(FramesWithToken(Len(hist) - 1, 106))
                    - Cardinality(FramesWithToken(Len(hist) - 1, 101))
          /\ Len(world.messages) =
                Cardinality(FramesWithToken(Len(hist) - 1, 116))

\* the callback of an exit broadcast runs after a join and a talk broadcast
\* were applied
C14_Witness ==
    /\ receiver = "callback"
    /\ Len(hist) = 3
    /\ Token(hist[1]) = 106
    /\ Token(hist[2]) = 116
    /\ Token(Last) = 101
    /\ Len(world.clients) = 1
    /\ Len(world.messages) = 1

C16_OtherTokensIgnored ==
    \A n \in 1..Len(hist) :
        (/\ Len(hist[n].data) > 0
         /\ Token(hist[n]) \notin {106, 101, 112, 116})
            => /\ hist[n].outcome = "Ok"
               /\ hist[n].callback = "none"
               /\ ~hist[n].mutated
               /\ hist[n].after = hist[n].before
               /\ (n = Len(hist) /\ received = hist[n].seq)
                     => /\ receiver = "next"
                        /\ ~receiver_finished
                        /\ <<bot, world>> = hist[n].before

\* a lag response and a request frame were ignored after a join broadcast
C16_Witness ==
    /\ Len(hist) = 3
    /\ Token(hist[1]) = 106
    /\ hist[2].data = LagFrame
    /\ Token(hist[3]) = 80
    /\ hist[3].outcome = "Ok"
    /\ receiver = "next"
    /\ Len(world.clients) = 1

\* the clean broadcast a frame of hist decodes to
Decoded(h) == Clean_try_from(h.arm, h.data).val

\* whether a list of clients has a client with this id
HasId(clients, id) == \E i \in 1..Len(clients) : clients[i].id = id

\* C17: starting from any reachable list of clients, a join broadcast for
\* id X followed by an exit broadcast for id X (both callbacks returning
\* Ok) leaves a list with no client of id X and of the length it had before
\* the join.
\* The code does not hold this: on a big-endian platform the exit id is read
\* with from_le_bytes, so position() finds no client and unwrap() panics;
\* and where X is already in the list, the first client of id X is removed
\* and one of id X stays.
C17_JoinThenExit ==
    \A n \in 1..(Len(hist) - 1) :
        (/\ hist[n].data = JoinFrame(5, <<97, 255>>)
         /\ hist[n].outcome = "Ok"
         /\ hist[n + 1].data = ExitFrame(5)
         /\ hist[n + 1].callback = "Ok"
         /\ hist[n + 1].outcome # "pending")
            => /\ hist[n + 1].outcome = "Ok"
               /\ ~HasId(hist[n + 1].after[2].clients, 5)
               /\ Len(hist[n + 1].after[2].clients)
                     = Len(hist[n].before[2].clients)

\* C18: a pose broadcast whose id matches no client is a no-op: once its
\* callback has returned Ok, patch_world returns Ok and the list of clients
\* is the same in content, order and length.
C18_UnknownPoseNoOp ==
    \A n \in 1..Len(hist) :
        (/\ Token(hist[n]) = 112
         /\ hist[n].arm = "PoseBroadcast"
         /\ hist[n].callback = "Ok"
         /\ hist[n].outcome # "pending"
         /\ ~HasId(hist[n].before[2].clients, Decoded(hist[n]).id))
            => /\ hist[n].outcome = "Ok"
               /\ hist[n].after[2].clients = hist[n].before[2].clients
               /\ hist[n].after = hist[n].before

\* a pose broadcast for id 6 was applied to a list holding 258 only
C18_Witness ==
    /\ Len(hist) = 2
    /\ hist[1].data = JoinFrame(258, <<195, 169>>)
    /\ hist[2].data = PoseFrame(6)
    /\ hist[2].outcome = "Ok"
    /\ hist[2].mutated
    /\ Len(world.clients) = 1
    /\ world.clients[1].pose = Default_PlayerPose

\* whether a string holds U+0000
HasNul(string) == \E i \in 1..Len(string) : string[i] = 0

\* C19: with replace_invalid_utf8 enabled, the nickname stored for every
\* joined client and the content of every stored Message hold no zero
\* character.
C19_NoNulWhenReplacing ==
    (world # NoVal /\ self_.replace_invalid_utf8) =>
        /\ \A i \in 1..Len(world.clients) : ~HasNul(world.clients[i].nickname)
        /\ \A i \in 1..Len(world.messages) : ~HasNul(world.messages[i].content)

\* a talk broadcast whose str holds zero bytes was stored without them, the
\* invalid byte replaced by U+FFFD
C19_Witness ==
    /\ world # NoVal
    /\ self_.replace_invalid_utf8
    /\ Len(hist) = 2
    /\ hist[1].data = JoinFrame(5, <<97, 255>>)
    /\ hist[2].arm = "TalkBroadcast"
    /\ hist[2].outcome = "Ok"
    /\ HasNul(Decoded(hist[2]).str)
    /\ world.messages[1].content = <<104, 239, 191, 189>>
    /\ world.clients[1].nickname = <<97, 239, 191, 189>>

\* C20: with replace_invalid_utf8 disabled, the text stored for a join or
\* talk broadcast is the bytes of the payload verbatim: invalid UTF-8 is
\* kept, nothing is stripped.
\* The code does not hold this: the false arm is to_string_lossy() too, so
\* every invalid byte is stored as U+FFFD.
C20_VerbatimWhenNotReplacing ==
    \A n \in 1..Len(hist) :
        (/\ ~self_.replace_invalid_utf8
         /\ hist[n].mutated
         /\ hist[n].outcome = "Ok")
            => LET after == hist[n].after[2]
               IN  /\ hist[n].arm = "JoinBroadcast" =>
                         after.clients[Len(after.clients)].nickname
                             = Decoded(hist[n]).name
                   /\ hist[n].arm = "TalkBroadcast" =>
                         after.messages[Len(after.messages)].content
                             = Decoded(hist[n]).str

----------------------------------------------------------------------------
(* Properties of the two tasks *)

\* a task that has returned or panicked
Ended == {"Ok", "Err", "Panic"}

\* C21: inbound binary frames are applied in arrival order and one at a
\* time: hist holds the arrived frames in their order, none left out, and
\* when a frame is in patch_world every earlier frame has left it, its
\* callback returned and its mutation applied; so at most one callback runs.
C21_OneFrameAtATime ==
    /\ Len(hist) = Len(arrived)
    /\ \A n \in 1..Len(hist) : hist[n].data = arrived[n]
    /\ \A n \in 1..(Len(hist) - 1) :
          /\ hist[n].seq < hist[n + 1].seq
          /\ hist[n].outcome = "Ok"
          /\ Token(hist[n]) \in {106, 101, 112, 116}
                => hist[n].callback = "Ok" /\ hist[n].mutated
    /\ receiver \in {"callback", "lock", "mutate"}
          => cur # NoVal /\ Last.outcome = "pending"

\* the callback of the third frame runs, the two frames before it applied
C21_Witness ==
    /\ Len(hist) = 3
    /\ receiver = "callback"
    /\ hist[1].mutated
    /\ hist[2].mutated
    /\ Last.outcome = "pending"
    /\ Len(world.clients) = 2

\* C22: whenever the receiver task has ended, whatever the reason, its
\* finished flag is true.
\* The code does not hold this: when ws_r.next() yields None the loop ends
\* and the task returns Ok(()) without touching the flag, and a panic in
\* patch_world leaves it false as well.
C22_EndedMeansFinished == receiver \in Ended => receiver_finished

\* C23: in one iteration of the sender task only the Strings that were in
\* the channel when draining started are written; a String sent into the
\* channel after that is written in the next iteration.
\* The code does not hold this: the while-let loop calls try_recv() until
\* it finds the channel empty, so a String sent while an earlier one is
\* being written is written in the same iteration.
C23_LateStringsWait == \A i \in 1..Len(talked) : ~talked[i].late

C25_IndependentTasks ==
    /\ sender_finished => sender = "Err"
    /\ receiver_finished => receiver = "Err"
    /\ (receiver \in Ended /\ sender = "spawned" /\ bot_lock = Free)
          => ENABLED SenderLockBot
    /\ (receiver \in Ended /\ sender = "pose") => ENABLED SenderPose
    /\ (receiver \in Ended /\ sender = "drain") => ENABLED SenderTryRecv
    /\ (sender = "Err" /\ receiver = "next" /\ received < MaxLoopFrames)
          => ENABLED LoopsReceiverNext
    /\ (sender = "Err" /\ receiver = "mutate") => ENABLED ReceiverMutate

\* the receiver task has ended with an error, the sender task has written a
\* pose request since and is writing the next
C25_Witness ==
    /\ receiver = "Err"
    /\ receiver_finished
    /\ ~sender_finished
    /\ received = 1
    /\ sender = "pose"
    /\ Len(sent) = 2

\* C26: while a callback runs the receiver task holds neither the Mutex of
\* the World nor that of the Player; it takes the World's only after the
\* callback has returned Ok and has dropped it when the next message is
\* read.
C26_NoLockAcrossCallback ==
    /\ bot_lock # "receiver"
    /\ receiver \in {"callback", "next", "lock"} \cup Ended
          => world_lock # "receiver"
    /\ world_lock = "receiver"
          => receiver = "mutate" /\ Last.callback = "Ok"

\* the receiver task holds the World's Mutex after a callback that locked
\* it and dropped it
C26_Witness ==
    /\ world_lock = "receiver"
    /\ receiver = "mutate"
    /\ Last.callback = "Ok"
    /\ enqueued = 1
    /\ bot_lock = "sender"

\* the Mutex a task is waiting for, "none" when it waits for none
Wants(task) ==
    CASE task = "sender" /\ sender = "spawned" -> "bot"
      [] task = "receiver" /\ receiver = "lock" -> "world"
      [] task = "receiver" /\ receiver = "callback" /\ cur.callback # <<>>
            /\ Head(cur.callback) = "lock_bot" -> "bot"
      [] task = "receiver" /\ receiver = "callback" /\ cur.callback # <<>>
            /\ Head(cur.callback) = "lock_world" -> "world"
      [] OTHER -> "none"

\* the task holding a Mutex; a callback runs on the receiver task
Holder(mutex) ==
    LET h == IF mutex = "bot" THEN bot_lock ELSE world_lock
    IN  IF h = "callback" THEN "receiver" ELSE h

\* the task this task waits for, "none" when it can go on
WaitsFor(task) ==
    IF task \in {"none", Free} \/ Wants(task) = "none" THEN "none"
    ELSE IF Holder(Wants(task)) = Free THEN "none"
    ELSE Holder(Wants(task))

Tasks == {"sender", "receiver", "caller"}

\* C27: no interleaving of the sender task, the receiver task, callbacks
\* that lock the Player and/or the World and drop the guards before they
\* return, and a caller that locks one of them at a time reaches a
\* deadlock: no task waits for a Mutex held by a task that, directly or
\* through others, waits for it.
C27_NoDeadlock ==
    \A t \in Tasks :
        /\ WaitsFor(t) # t
        /\ WaitsFor(WaitsFor(t)) # t
        /\ WaitsFor(WaitsFor(WaitsFor(t))) # t

\* the sender task waits for the Player held by a callback, which waits for
\* the World held by the caller
C27_Witness ==
    /\ WaitsFor("sender") = "receiver"
    /\ WaitsFor("receiver") = "caller"
    /\ WaitsFor("caller") = "none"
    /\ bot_lock = "callback"
    /\ world_lock = "caller"

\* C28: Strings sent into the channel, by callbacks or the caller, are
\* taken out by the sender task only; each is written as at most one talk
\* request and the talk requests are written in the order the Strings were
\* sent: the tickets of the written Strings increase, and a String is in
\* one place only - written, being written, or in the channel.
C28_QueueOrder ==
    LET held == IF sender = "talk" THEN <<outgoing>> ELSE <<>>
        all == talked \o held \o queue
    IN  /\ \A i \in 1..Len(all) : \A j \in 1..Len(all) :
              i < j => all[i].ticket < all[j].ticket
        /\ \A i \in 1..Len(all) : all[i].ticket \in 1..enqueued
        /\ Len(all) <= enqueued

\* two Strings were written in the order they were sent
C28_Witness ==
    /\ Len(talked) = 2
    /\ talked[1].ticket = 1
    /\ talked[2].ticket = 2
    /\ queue = <<>>
    /\ sender = "drain"

\* the String with this ticket was written as a talk request
Talked(t) == \E i \in 1..Len(talked) : talked[i].ticket = t

\* C29: as long as the writes of the sender task succeed and the Strings
\* can be made CStrings, every String sent into the channel is eventually
\* written as a talk request, the sender task being scheduled fairly.
C29_EventuallyWritten ==
    \A t \in 1..MaxQueued : (enqueued >= t) ~> (Talked(t) \/ write_failed)

\* both Strings were written and no write has failed
C29_Witness ==
    /\ enqueued = MaxQueued
    /\ \A t \in 1..MaxQueued : Talked(t)
    /\ ~write_failed

\* C31: every iteration of the sender task writes one pose request, made
\* from the pose the Player holds when the iteration locks it, and writes it
\* before the talk requests of the iteration: the write of a pose request
\* starts only at the top of the loop with the Player's pose as it is then
\* (so a pose set by the caller or a callback before is carried), the pose
\* cannot change while the write is pending, the drain starts only after
\* that write, and a talk request is written only from the drain.
C31_PoseFirst ==
    [][/\ sender' = "pose" => sender \in {"spawned", "pose"}
       /\ (sender = "spawned" /\ sender' = "pose") =>
             /\ bot' = bot
             /\ outgoing' = Clean_into_Bytes("PoseRequest",
                                [player_pose |-> bot.pose]).val
       /\ (sender = "pose" /\ sender' = "pose") =>
             /\ outgoing' = outgoing
             /\ bot'.pose = bot.pose
       /\ (sender = "pose" /\ sender' = "drain") =>
             sent' = Written(sent, Clean_into_Bytes("PoseRequest",
                                      [player_pose |-> bot.pose]).val)
       /\ (sender' = "drain" /\ sender # "drain") =>
             sender \in {"pose", "talk"}
       /\ sender' = "talk" => sender \in {"drain", "talk"}
       /\ talked' # talked => sender = "talk"
       /\ (sender' = "spawned" /\ sender \notin {"spawned", "none"}) =>
             sender = "drain"]_vars

\* the caller has set the pose and the first pose request written carries
\* it, and a talk request was written after it
C31_Witness ==
    /\ Len(sent) = 2
    /\ bot.pose = MovedPose
    /\ sent[2] = Clean_into_Bytes("PoseRequest",
                     [player_pose |-> MovedPose]).val
    /\ Len(talked) = 1
    /\ sender = "drain"

\* the ids of a list of Players
IdsOf(clients) == [i \in 1..Len(clients) |-> clients[i].id]

\* the ids of the join broadcasts applied so far, in arrival order
JoinedIds ==
    LET joins == SelectSeq(hist, LAMBDA h : h.arm = "JoinBroadcast"
                                              /\ h.mutated)
    IN  [i \in 1..Len(joins) |-> Decoded(joins[i]).id]

\* a is b with some elements left out
RECURSIVE IsSubSeq(_, _)
IsSubSeq(a, b) ==
    IF a = <<>> THEN TRUE
    ELSE IF b = <<>> THEN FALSE
    ELSE IF Head(a) = Head(b) THEN IsSubSeq(Tail(a), Tail(b))
    ELSE IsSubSeq(a, Tail(b))

\* C32: a join broadcast that patch_world has processed with Ok added one
\* Player at the end of the list, with the id and the pose of the broadcast
\* and, when invalid UTF-8 is replaced, its name made valid UTF-8 and freed
\* of nul bytes; the Players that were in the list are as they were and in
\* the same order.  So the ids in the list are the ids of the join
\* broadcasts in arrival order with some left out.
C32_JoinAppends ==
    /\ \A n \in 1..Len(hist) :
          (hist[n].arm = "JoinBroadcast" /\ hist[n].outcome = "Ok") =>
              LET was == hist[n].before[2].clients
                  is == hist[n].after[2].clients
                  brc == Decoded(hist[n])
              IN  /\ Len(is) = Len(was) + 1
                  /\ SubSeq(is, 1, Len(was)) = was
                  /\ is[Len(is)].id = brc.id
                  /\ is[Len(is)].pose = brc.player_pose
                  /\ self_.replace_invalid_utf8 =>
                        is[Len(is)].nickname =
                            replace_nul(to_string_lossy(brc.name))
    /\ world # NoVal => IsSubSeq(IdsOf(world.clients), JoinedIds)

\* the join broadcast of 258 was added behind the Player of 5
C32_Witness ==
    /\ Len(hist) = 2
    /\ hist[2].arm = "JoinBroadcast"
    /\ hist[2].outcome = "Ok"
    /\ IdsOf(world.clients) = <<5, 258>>
    /\ self_.replace_invalid_utf8
    /\ world.clients[1].nickname = <<97, 239, 191, 189>>

\* C33: an exit broadcast whose id no Player of the list has ends the
\* receiver task and is not passed over: once its callback has returned Ok
\* the arm does not complete, no later frame is given to patch_world, and
\* the list of Players is the one from before the frame.
C33_UnknownExitFatal ==
    \A n \in 1..Len(hist) :
        (/\ hist[n].arm = "ExitBroadcast"
         /\ hist[n].callback = "Ok"
         /\ ~HasId(hist[n].before[2].clients, Decoded(hist[n]).id)) =>
            /\ n = Len(hist)
            /\ ~hist[n].mutated
            /\ hist[n].outcome \in {"pending", "Panic"}
            /\ receiver \in {"lock", "mutate", "Panic"}
            /\ hist[n].outcome = "Panic" <=> receiver = "Panic"
            /\ world.clients = hist[n].before[2].clients

\* after the join of 258 an exit broadcast for an id nobody has ended the
\* receiver task
C33_Witness ==
    /\ Len(hist) = 2
    /\ hist[1].arm = "JoinBroadcast"
    /\ hist[2].arm = "ExitBroadcast"
    /\ hist[2].callback = "Ok"
    /\ hist[2].outcome = "Panic"
    /\ receiver = "Panic"
    /\ IdsOf(world.clients) = <<258>>

\* C34: a pose broadcast for an id X that a Player of the list has, once
\* processed with Ok, has given a Player of id X the pose of the broadcast
\* and changed nothing else: the id and nickname of that Player, the other
\* Players, the order and length of the list and the messages are as
\* before.
C34_PoseOverwrites ==
    \A n \in 1..Len(hist) :
        (/\ hist[n].arm = "PoseBroadcast"
         /\ hist[n].outcome = "Ok"
         /\ HasId(hist[n].before[2].clients, Decoded(hist[n]).id)) =>
            LET was == hist[n].before[2]
                is == hist[n].after[2]
                brc == Decoded(hist[n])
            IN  /\ \E i \in 1..Len(was.clients) :
                      /\ was.clients[i].id = brc.id
                      /\ is.clients =
                            [was.clients EXCEPT ![i].pose = brc.player_pose]
                /\ is.messages = was.messages
                /\ is = [was EXCEPT !.clients = is.clients]

\* the Player of 5 has the pose of the pose broadcast and its nickname
C34_Witness ==
    /\ Len(hist) = 2
    /\ hist[1].arm = "JoinBroadcast"
    /\ hist[2].arm = "PoseBroadcast"
    /\ hist[2].outcome = "Ok"
    /\ Len(world.clients) = 1
    /\ world.clients[1].id = 5
    /\ world.clients[1].pose = MovedPose
    /\ world.clients[1].nickname # <<>>
    /\ hist[2].before[2].clients[1].pose = Default_PlayerPose

\* the authors of the talk broadcasts applied so far, in arrival order
TalkAuthors ==
    LET talks == SelectSeq(hist, LAMBDA h : h.arm = "TalkBroadcast"
                                              /\ h.mutated)
    IN  [i \in 1..Len(talks) |-> Decoded(talks[i]).id]

\* C35: a talk broadcast that patch_world has processed with Ok added one
\* Message, with the id of the broadcast as author, at the end of the
\* messages; no frame of any kind changes, moves or removes a Message that
\* is there.  With nobody popping, the messages are those of the talk
\* broadcasts in arrival order.
C35_TalkAppends ==
    /\ \A n \in 1..Len(hist) :
          hist[n].outcome = "Ok" =>
              LET was == hist[n].before[2].messages
                  is == hist[n].after[2].messages
              IN  IF hist[n].arm = "TalkBroadcast"
                  THEN /\ Len(is) = Len(was) + 1
                       /\ SubSeq(is, 1, Len(was)) = was
                       /\ is[Len(is)].author = Decoded(hist[n]).id
                  ELSE is = was
    /\ world # NoVal =>
          /\ [i \in 1..Len(world.messages) |-> world.messages[i].author]
                = TalkAuthors
          /\ \A i \in 1..Len(world.messages) :
                \A j \in 1..Len(world.messages) :
                    i < j => world.messages[i].when <= world.messages[j].when

\* two talk broadcasts were processed, the second Message is behind the
\* first
C35_Witness ==
    /\ Len(hist) = 2
    /\ hist[1].arm = "TalkBroadcast"
    /\ hist[2].arm = "TalkBroadcast"
    /\ hist[2].outcome = "Ok"
    /\ Len(world.messages) = 2
    /\ world.messages[1].author = 5
    /\ world.messages[2].author = 5

\* C36: whatever broadcasts have come in, no two Players of the list have
\* the same id.
\* The code does not hold this: the join arm pushes the Player without
\* looking for its id in the list, so two join broadcasts with one id and
\* no exit between them leave two Players with that id.
C36_UniqueIds ==
    world # NoVal =>
        \A i \in 1..Len(world.clients) : \A j \in 1..Len(world.clients) :
            i # j => world.clients[i].id # world.clients[j].id

\* what C37 says of the flags after Bot::run has returned, in one step: a
\* flag becomes true only in the step that ends its task with an error, a
\* flag that is true stays true, and the task of a flag that is true has
\* ended and does not set it again
FlagsSetOnce ==
    /\ (sender_finished' /\ ~sender_finished) =>
          sender' = "Err" /\ sender # "Err"
    /\ (receiver_finished' /\ ~receiver_finished) =>
          receiver' = "Err" /\ receiver # "Err"
    /\ sender_finished => sender_finished' /\ sender = "Err" /\ sender' = "Err"
    /\ receiver_finished =>
          receiver_finished' /\ receiver = "Err" /\ receiver' = "Err"

Undecodable(h) ==
    \/ Len(h.data) = 0
    \/ h.arm # "none" /\ Clean_try_from(h.arm, h.data).tag # "Ok"

\* C38: a Binary frame that cannot be decoded makes patch_world return Err
\* without a panic, without a callback and without a change of the World;
\* the receiver task then ends with its finished flag true.
\* The code does not hold this: patch_world starts with match data[0],
\* which panics on the empty frame, and RawTalkBroadcast::try_from indexes
\* value[1..3] and slices value[4..] without a look at the length, which
\* panics on a 't' frame of fewer than 4 bytes; the task unwinds and the
\* flag stays false.
C38_UndecodableIsErr ==
    \A n \in 1..Len(hist) :
        Undecodable(hist[n]) =>
            /\ hist[n].outcome = "Err"
            /\ hist[n].callback = "none"
            /\ ~hist[n].mutated
            /\ n = Len(hist)
            /\ world = hist[n].before[2]
            /\ receiver = "Err"
            /\ receiver_finished

\* C40: with callbacks that change nothing, no frame changes max_clients
\* or the lag stamp of the World or the Player of the bot: they are as
\* Bot::run built them, before and after every frame, also after a pose
\* broadcast that carries the id of the bot.
C40_OnlyClientsAndMessages ==
    world # NoVal =>
        /\ bot.nickname = self_.nickname
        /\ bot.pose = Default_PlayerPose
        /\ bot.id = FrameId(first.data)
        /\ world.max_clients = first.data[2]
        /\ world.lag = <<0, 0, 0>>
        /\ \A n \in 1..Len(hist) :
              /\ hist[n].before[1] = bot
              /\ hist[n].before[2].max_clients = world.max_clients
              /\ hist[n].before[2].lag = world.lag
              /\ hist[n].outcome = "Ok" =>
                    /\ hist[n].after[1] = bot
                    /\ hist[n].after[2].max_clients = world.max_clients
                    /\ hist[n].after[2].lag = world.lag

\* a join broadcast with the id of the bot and a pose broadcast with it
\* were processed: the Player of the list moved, the Player of the bot did
\* not
C40_Witness ==
    /\ Len(hist) = 3
    /\ hist[1].arm = "JoinBroadcast"
    /\ hist[2].arm = "PoseBroadcast"
    /\ hist[2].mutated
    /\ Decoded(hist[2]).id = bot.id
    /\ hist[3].arm = "none"
    /\ Token(hist[3]) = 108
    /\ hist[3].outcome = "Ok"
    /\ world.clients[1].pose = MovedPose
    /\ bot.pose = Default_PlayerPose

\* C39: in the frame of a talk request the byte at offset 1 is the number
\* of text bytes, the text starts at offset 2 and is followed by one
\* terminator zero and one padding zero and nothing more, and the frame has
\* at most 258 bytes.
\* The code does not hold this: the len field is bytes.len() as u8 and no
\* length is checked, so a text of 255 bytes gives a frame of 259 bytes and
\* a text of 256 bytes a len byte of 0.
C39_TalkRequestLayout ==
    (stage \in {"encoded", "decoded", "talk_request"}
        /\ kind = "TalkRequest") =>
        /\ mid.tag = "Ok"
        /\ Len(mid.val) = Len(src.str) + 4
        /\ mid.val[1] = 84
        /\ mid.val[2] = Len(src.str)
        /\ SubSeq(mid.val, 3, 2 + Len(src.str)) = src.str
        /\ mid.val[Len(src.str) + 3] = 0
        /\ mid.val[Len(src.str) + 4] = 0
        /\ Len(mid.val) <= 258

\* C30: the join request is the first frame written, and until the join
\* response has been received and the Player and World built from it no
\* pose or talk request is written, no task runs and no frame is given to
\* patch_world.
C30_JoinRequestFirst ==
    /\ sent # <<>> =>
          /\ sent[1][1] = 74
          /\ sent[1] = <<74>> \o self_.nickname
                          \o [i \in 1..(31 - Len(self_.nickname)) |-> 0]
    /\ run = "awaiting" => Len(sent) = 1
    /\ run \notin {"spawned", "Ok"} =>
          /\ Len(sent) <= 1
          /\ hist = <<>>
          /\ arrived = <<>>
          /\ talked = <<>>
          /\ sender = "none"
          /\ receiver = "none"
          /\ bot = NoVal
          /\ world = NoVal

\* after the join request the sender task wrote a pose request and the
\* receiver task gave a frame to patch_world
C30_Witness ==
    /\ run = "Ok"
    /\ Len(sent) >= 2
    /\ sent[1][1] = 74
    /\ sent[2][1] = 80
    /\ Len(hist) = 1
    /\ world # NoVal

====
